---- MODULE Spec2Model ----
(***************************************************************************)
(* MemoryBridge: the semantic memory graph and retrieval engine.           *)
(*                                                                         *)
(*   ai/embeddings/semantic_graph.py  cosine_similarity,                   *)
(*                                    build_semantic_graph,                *)
(*                                    _make_union_find/_find/_union,       *)
(*                                    find_memory_clusters                 *)
(*   ai/embeddings/retrieval.py       retrieve_top_k                       *)
(*                                                                         *)
(* The functions are pure.  Each specification draws the nodes in its      *)
(* initial states and has one action per function, which draws the other   *)
(* arguments of the call and stores what the call returned or raised.      *)
(*                                                                         *)
(* Numbers.  A float is modelled by the exact rational it approximates,    *)
(* a record [n, d] in lowest terms with d > 0.  Embedding components are   *)
(* integers and every vector of the model has an integral Euclidean norm,  *)
(* so math.sqrt is exact.  A similarity stored on an edge,                 *)
(* round(sim, 4), is the integer number of ten-thousandths.                *)
(*                                                                         *)
(* Strings.  A node id is the tuple of its characters, so that Python's    *)
(* str ordering (by code point, then by length) is computed, not assumed.  *)
(***************************************************************************)
EXTENDS Integers, Sequences, FiniteSets, TLC

VARIABLES
    nodes,      \* Sequence[MemoryNode]: the nodes argument of the call
    pc,         \* "start", or the name of the function that has returned
    threshold,  \* build_semantic_graph: the threshold argument
    edges,      \* find_memory_clusters: the edges argument
    query,      \* retrieve_top_k: the query_embedding argument
    k,          \* retrieve_top_k: the k argument
    result,     \* what the call returned or raised: [exc, value]
    args,       \* the arguments of a call to one of the other functions
    locals,     \* the local variables of the coroutine that is running
    in_flight,  \* the caption indexes whose embedding request is awaited
    firestore,  \* the Firestore documents set so far, in order, as updated since
    storage,    \* the files uploaded to Firebase Storage so far, in order
    background, \* the background jobs started so far, in order
    elevenlabs, \* the requests made to the ElevenLabs API, or what it created, in order
    globals     \* the module-level variables of the process

(* What lies outside the coroutine: requests in flight, what was written   *)
(* and what the other threads share                                        *)
world == <<in_flight, firestore, storage, background, elevenlabs, globals>>

vars == <<nodes, pc, threshold, edges, query, k, result, args, locals, world>>

----------------------------------------------------------------------------
(* Bounds of the model *)

MaxNodes == 3

MaxEdges == 2

(* The number of pieces a date string is put together from *)
MaxDateTokens == 4

(* The longest caption body, past the 200 characters a rendered caption    *)
(* may have                                                                *)
MaxCaptionLen == 203

(* The longest hit list *)
MaxHits == 2

(* The most captions a memory holds, more than the 30 that are processed *)
MaxCaptions == 32

(* The threads that call into the process at the same time *)
MaxThreads == 3

----------------------------------------------------------------------------
(* Generic helpers *)

Range(s) == {s[i] : i \in 1..Len(s)}

Min(x, y) == IF x <= y THEN x ELSE y

Max(x, y) == IF x >= y THEN x ELSE y

Abs(x) == IF x < 0 THEN 0 - x ELSE x

Front(s) == SubSeq(s, 1, Len(s) - 1)

Last(s) == s[Len(s)]

RECURSIVE GCD(_, _)
GCD(x, y) == IF y = 0 THEN x ELSE GCD(y, x % y)

(* All sequences without repetition over the set S of length at most n *)
RECURSIVE InjSeqs(_, _)
InjSeqs(S, n) ==
    IF n = 0 THEN {<<>>}
    ELSE LET shorter == InjSeqs(S, n - 1)
         IN shorter \cup
            UNION {{Append(s, x) : x \in S \ Range(s)} : s \in shorter}

(* All sequences over the set S of length at most n *)
RECURSIVE SeqsUpTo(_, _)
SeqsUpTo(S, n) ==
    IF n = 0 THEN {<<>>}
    ELSE LET shorter == SeqsUpTo(S, n - 1)
         IN shorter \cup {Append(s, x) : s \in shorter, x \in S}

----------------------------------------------------------------------------
(* Floats as exact rationals *)

Rat(num, den) ==
    LET g == GCD(Abs(num), den)
    IN [n |-> num \div g, d |-> den \div g]

(* Comparisons, by cross-multiplication unless the denominators agree *)
RatLeq(x, y) == IF x.d = y.d THEN x.n <= y.n ELSE x.n * y.d <= y.n * x.d

RatLess(x, y) == IF x.d = y.d THEN x.n < y.n ELSE x.n * y.d < y.n * x.d

RatEq(x, y) == x.n = y.n /\ x.d = y.d

Zero == Rat(0, 1)

(* round(x, 4) in ten-thousandths: to nearest, an exact half to even *)
round4(x) ==
    LET scaled == x.n * 10000
        lo == scaled \div x.d
        twice == 2 * (scaled - lo * x.d)
    IN IF twice < x.d THEN lo
       ELSE IF twice > x.d THEN lo + 1
       ELSE IF lo % 2 = 0 THEN lo ELSE lo + 1

(* A stored similarity read back as a float *)
FromStored(s) == Rat(s, 10000)

----------------------------------------------------------------------------
(* Outcome of a call: a value returned, or an exception raised to the caller *)

Return(v) == [exc |-> "none", value |-> v]

Raise(e) == [exc |-> e, value |-> <<>>]

NoResult == [exc |-> "none", value |-> <<>>]

Raised(r) == r.exc # "none"

----------------------------------------------------------------------------
(* Data types *)

MemoryNode(id, embedding, era) == [id |-> id, embedding |-> embedding, era |-> era]

MemoryEdge(source_id, target_id, similarity) ==
    [source_id |-> source_id, target_id |-> target_id, similarity |-> similarity]

_UNKNOWN_ERA == "unknown"

----------------------------------------------------------------------------
(* cosine_similarity *)

RECURSIVE Dot(_, _)
Dot(a, b) ==
    IF a = <<>> \/ b = <<>> THEN 0
    ELSE Head(a) * Head(b) + Dot(Tail(a), Tail(b))

sqrt(x) == CHOOSE r \in 0..x : r * r <= x /\ (r + 1) * (r + 1) > x

(* Faulty variant: no length check, zip() stops at the shorter vector *)
cosine_similarity_truncating(a, b) ==
    LET dot == Dot(a, b)
        norm_a == sqrt(Dot(a, a))
        norm_b == sqrt(Dot(b, b))
    IN IF norm_a = 0 \/ norm_b = 0 THEN Return(Zero)
       ELSE Return(Rat(dot, norm_a * norm_b))

(* Faulty variant: only norm_a is tested before the division *)
cosine_similarity_first_norm_only(a, b) ==
    IF Len(a) # Len(b) THEN Raise("ValueError")
    ELSE LET dot == Dot(a, b)
             norm_a == sqrt(Dot(a, a))
             norm_b == sqrt(Dot(b, b))
         IN IF norm_a = 0 THEN Return(Zero)
            ELSE IF norm_b = 0 THEN Raise("ZeroDivisionError")
            ELSE Return(Rat(dot, norm_a * norm_b))

cosine_similarity(a, b) ==
    IF Len(a) # Len(b) THEN Raise("ValueError")
    ELSE LET dot == Dot(a, b)
             norm_a == sqrt(Dot(a, a))
             norm_b == sqrt(Dot(b, b))
         IN IF norm_a = 0 \/ norm_b = 0 THEN Return(Zero)
            ELSE Return(Rat(dot, norm_a * norm_b))

----------------------------------------------------------------------------
(* build_semantic_graph *)

(* Faulty variant: the inner loop starts at i *)
InnerStartFromSelf(i) == i

(* for j in range(i + 1, n) *)
InnerStart(i) == i + 1

(* Faulty variant: the rounded similarity is compared *)
AboveThresholdRounded(sim, t) == RatLeq(t, FromStored(round4(sim)))

(* Faulty variant: the comparison the wrong way round *)
AboveThresholdFlipped(sim, t) == RatLeq(sim, t)

(* if sim >= threshold *)
AboveThreshold(sim, t) == RatLeq(t, sim)

(* Faulty variant: an edge goes ahead of the edges of its similarity *)
RECURSIVE InsertBySimilarityUnstable(_, _)
InsertBySimilarityUnstable(sorted, e) ==
    IF sorted = <<>> THEN <<e>>
    ELSE IF Head(sorted).similarity > e.similarity
         THEN <<Head(sorted)>> \o InsertBySimilarityUnstable(Tail(sorted), e)
         ELSE <<e>> \o sorted

RECURSIVE SortEdgesUnstable(_)
SortEdgesUnstable(es) ==
    IF es = <<>> THEN <<>>
    ELSE InsertBySimilarityUnstable(SortEdgesUnstable(Front(es)), Last(es))

(* edges.sort(key=lambda e: e.similarity, reverse=True): list.sort is      *)
(* stable, also with reverse=True.  The edges of the greatest similarity   *)
(* come first, in the order they were appended in, then those of the next  *)
(* similarity, and so on.                                                  *)
RECURSIVE SortEdgesBy(_, _)
SortEdgesBy(es, similarities) ==
    IF similarities = {} THEN <<>>
    ELSE LET top == CHOOSE x \in similarities : \A y \in similarities : x >= y
         IN SelectSeq(es, LAMBDA e : e.similarity = top)
            \o SortEdgesBy(es, similarities \ {top})

SortEdges(es) == SortEdgesBy(es, {es[p].similarity : p \in 1..Len(es)})

(* for j in range(i + 1, n): lines 185-194 for one i, positions 1-based.   *)
(* An exception of cosine_similarity leaves the loops and the function at  *)
(* once; otherwise the edges of the row are appended in the order of j.    *)
RowLoop(node_list, t, i, acc) ==
    LET js == [m \in 1..(Len(node_list) - InnerStart(i) + 1) |-> InnerStart(i) + m - 1]
        sims == [j \in Range(js) |->
                    cosine_similarity(node_list[i].embedding, node_list[j].embedding)]
        kept == SelectSeq(js, LAMBDA j : AboveThreshold(sims[j].value, t))
    IN IF \E j \in Range(js) : Raised(sims[j])
       THEN sims[CHOOSE j \in Range(js) : Raised(sims[j])]
       ELSE Return(acc \o [m \in 1..Len(kept) |->
                              MemoryEdge(node_list[i].id, node_list[kept[m]].id,
                                         round4(sims[kept[m]].value))])

(* for i in range(n): line 184, with the edges appended so far *)
RECURSIVE PairLoop(_, _, _, _)
PairLoop(node_list, t, i, acc) ==
    IF i > Len(node_list) THEN Return(acc)
    ELSE LET row == RowLoop(node_list, t, i, acc)
         IN IF Raised(row) THEN row
            ELSE PairLoop(node_list, t, i + 1, row.value)

build_semantic_graph(node_list, t) ==
    LET looped == PairLoop(node_list, t, 1, <<>>)
    IN IF Raised(looped) THEN looped
       ELSE Return(SortEdges(looped.value))

----------------------------------------------------------------------------
(* Union-find *)

_make_union_find(node_ids) == [nid \in Range(node_ids) |-> nid]

(* _find compresses the path as it walks; it yields the parent map it      *)
(* leaves behind and the root it returns.                                  *)
RECURSIVE _find(_, _)
_find(parent, nid) ==
    IF parent[nid] = nid THEN [parent |-> parent, root |-> nid]
    ELSE LET compressed == [parent EXCEPT ![nid] = parent[parent[nid]]]
         IN _find(compressed, compressed[nid])

(* Faulty variant: b itself, not its root, is hung under the root of a *)
_union_member(parent, a, b) ==
    LET fa == _find(parent, a)
        fb == _find(fa.parent, b)
    IN IF fa.root # fb.root
       THEN [fb.parent EXCEPT ![b] = fa.root]
       ELSE fb.parent

(* Faulty variant: b is hung under a, neither root is looked up *)
_union_no_find(parent, a, b) ==
    IF a # b THEN [parent EXCEPT ![b] = a] ELSE parent

_union(parent, a, b) ==
    LET fa == _find(parent, a)
        fb == _find(fa.parent, b)
    IN IF fa.root # fb.root
       THEN [fb.parent EXCEPT ![fb.root] = fa.root]
       ELSE fb.parent

----------------------------------------------------------------------------
(* Insertion-ordered dict: a sequence of entries [key, value] *)

DictHas(dict, key) == \E i \in 1..Len(dict) : dict[i].key = key

DictGet(dict, key, default) ==
    IF DictHas(dict, key)
    THEN dict[CHOOSE i \in 1..Len(dict) : dict[i].key = key].value
    ELSE default

(* dict[key] = value: a present key keeps its place *)
DictSet(dict, key, value) ==
    IF DictHas(dict, key)
    THEN [i \in 1..Len(dict) |->
             IF dict[i].key = key THEN [key |-> key, value |-> value] ELSE dict[i]]
    ELSE Append(dict, [key |-> key, value |-> value])

----------------------------------------------------------------------------
(* find_memory_clusters *)

(* if edge.source_id in parent and edge.target_id in parent *)
EndpointsKnown(parent, edge) ==
    edge.source_id \in DOMAIN parent /\ edge.target_id \in DOMAIN parent

(* Faulty variant: the loop ends at the first edge with an unknown endpoint *)
RECURSIVE UnionEdgesStopAtUnknown(_, _)
UnionEdgesStopAtUnknown(parent, es) ==
    IF es = <<>> THEN parent
    ELSE IF EndpointsKnown(parent, Head(es))
         THEN UnionEdgesStopAtUnknown(
                  _union(parent, Head(es).source_id, Head(es).target_id),
                  Tail(es))
         ELSE parent

(* for edge in edges: lines 250-252 *)
RECURSIVE UnionEdges(_, _)
UnionEdges(parent, es) ==
    IF es = <<>> THEN parent
    ELSE UnionEdges(
             IF EndpointsKnown(parent, Head(es))
             THEN _union(parent, Head(es).source_id, Head(es).target_id)
             ELSE parent,
             Tail(es))

(* for nid in node_ids: lines 255-258; _find goes on compressing parent *)
RECURSIVE GroupByRoot(_, _, _)
GroupByRoot(parent, node_ids, root_to_members) ==
    IF node_ids = <<>> THEN root_to_members
    ELSE LET f == _find(parent, Head(node_ids))
         IN GroupByRoot(f.parent, Tail(node_ids),
                DictSet(root_to_members, f.root,
                        Append(DictGet(root_to_members, f.root, <<>>),
                               Head(node_ids))))

(* id_to_node = {n.id: n for n in node_list}: the last node of an id wins *)
IdToNode(node_list, id) ==
    node_list[CHOOSE i \in 1..Len(node_list) :
                 /\ node_list[i].id = id
                 /\ \A j \in (i + 1)..Len(node_list) : node_list[j].id # id]

(* Faulty variant: the label without the ordinal *)
ClusterLabelNoOrdinal(era, idx) == "cluster_" \o era

(* f"cluster_{era}_{idx}" *)
ClusterLabel(era, idx) == "cluster_" \o era \o "_" \o ToString(idx)

(* Faulty variant: one counter for all eras *)
NextOrdinalGlobal(era_counter, era) == Len(era_counter) + DictGet(era_counter, era, 0)

(* Faulty variant: the counter of the era is never read *)
NextOrdinalAlwaysZero(era_counter, era) == 0

(* idx = era_counter[era], era_counter a defaultdict(int) *)
NextOrdinal(era_counter, era) == DictGet(era_counter, era, 0)

(* for root, members in root_to_members.items(): lines 264-270 *)
RECURSIVE LabelGroups(_, _, _, _)
LabelGroups(node_list, groups, era_counter, clusters) ==
    IF groups = <<>> THEN clusters
    ELSE LET root == Head(groups).key
             members == Head(groups).value
             era == IF \E i \in 1..Len(node_list) : node_list[i].id = root
                    THEN IdToNode(node_list, root).era
                    ELSE _UNKNOWN_ERA
             idx == NextOrdinal(era_counter, era)
         IN LabelGroups(node_list, Tail(groups),
                        DictSet(era_counter, era, idx + 1),
                        DictSet(clusters, ClusterLabel(era, idx), members))

find_memory_clusters(node_list, es) ==
    LET node_ids == [i \in 1..Len(node_list) |-> node_list[i].id]
        parent == UnionEdges(_make_union_find(node_ids), es)
        root_to_members == GroupByRoot(parent, node_ids, <<>>)
    IN Return(LabelGroups(node_list, root_to_members, <<>>, <<>>))

----------------------------------------------------------------------------
(* retrieve_top_k *)

RetrievalResult(node, score) == [node |-> node, score |-> score]

(* ord() of the characters the ids of the model are made of *)
ord(c) ==
    CASE c = "0" -> 48 [] c = "1" -> 49 [] c = "2" -> 50 [] c = "3" -> 51
      [] c = "9" -> 57 [] c = "_" -> 95 [] c = "m" -> 109

(* str < str: by code point at the first difference, a proper prefix first *)
RECURSIVE StrLess(_, _)
StrLess(s, t) ==
    IF t = <<>> THEN FALSE
    ELSE IF s = <<>> THEN TRUE
    ELSE IF Head(s) # Head(t) THEN ord(Head(s)) < ord(Head(t))
    ELSE StrLess(Tail(s), Tail(t))

(* Faulty variant: the key without the id *)
KeyLessScoreOnly(r1, r2) == RatLess(r2.score, r1.score)

(* (-r1.score, r1.node.id) < (-r2.score, r2.node.id), as tuples compare *)
KeyLess(r1, r2) ==
    \/ RatLess(r2.score, r1.score)
    \/ RatEq(r1.score, r2.score) /\ StrLess(r1.node.id, r2.node.id)

(* scored.sort(key=...): stable, ascending in the key *)
RECURSIVE InsertByKey(_, _)
InsertByKey(sorted, r) ==
    IF sorted = <<>> THEN <<r>>
    ELSE IF KeyLess(r, Head(sorted)) THEN <<r>> \o sorted
    ELSE <<Head(sorted)>> \o InsertByKey(Tail(sorted), r)

RECURSIVE SortScored(_)
SortScored(scored) ==
    IF scored = <<>> THEN <<>>
    ELSE InsertByKey(SortScored(Front(scored)), Last(scored))

(* The list comprehension of lines 67-70: the first exception ends it *)
RECURSIVE ScoreAll(_, _, _)
ScoreAll(query_embedding, node_list, scored) ==
    IF node_list = <<>> THEN Return(scored)
    ELSE LET sim == cosine_similarity(query_embedding, Head(node_list).embedding)
         IN IF Raised(sim) THEN sim
            ELSE ScoreAll(query_embedding, Tail(node_list),
                          Append(scored, RetrievalResult(Head(node_list), sim.value)))

(* Faulty variant: one entry too many *)
SliceInclusive(s, stop) ==
    IF stop >= 0 THEN SubSeq(s, 1, Min(stop + 1, Len(s)))
    ELSE SubSeq(s, 1, Max(Len(s) + stop + 1, 0))

(* s[:stop]: a negative stop counts from the end *)
Slice(s, stop) ==
    IF stop >= 0 THEN SubSeq(s, 1, Min(stop, Len(s)))
    ELSE SubSeq(s, 1, Max(Len(s) + stop, 0))

retrieve_top_k(query_embedding, node_list, kk) ==
    IF node_list = <<>> THEN Return(<<>>)
    ELSE LET scored == ScoreAll(query_embedding, node_list, <<>>)
         IN IF Raised(scored) THEN scored
            ELSE Return(Slice(SortScored(scored.value), kk))

----------------------------------------------------------------------------
(* get_era_from_date.  A date string is the tuple of its characters. *)

ERA_DECADE_MAP ==
    << [key |-> "1940", value |-> "1940s"], [key |-> "1950", value |-> "1950s"],
       [key |-> "1960", value |-> "1960s"], [key |-> "1970", value |-> "1970s"],
       [key |-> "1980", value |-> "1980s"], [key |-> "1990", value |-> "1990s"],
       [key |-> "2000", value |-> "2000s"], [key |-> "2010", value |-> "2010s"],
       [key |-> "2020", value |-> "2020s"] >>

Digits == <<"0", "1", "2", "3", "4", "5", "6", "7", "8", "9">>

(* \d *)
IsDigit(c) == c \in Range(Digits)

Letters == {"a", "T"}

(* \w: a letter, a digit or the underscore *)
IsWordChar(c) == c \in Letters \/ IsDigit(c) \/ c = "_"

(* Whether a word character stands at place p of s; none stands outside s *)
WordCharAt(s, p) == p >= 1 /\ p <= Len(s) /\ IsWordChar(s[p])

(* Faulty variant: no \b in the pattern *)
WordBoundaryAnywhere(s, p) == TRUE

(* \b before place p: a word character on exactly one side *)
WordBoundary(s, p) == WordCharAt(s, p - 1) # WordCharAt(s, p)

(* The pattern \b(\d{4})\b matches at place i *)
YearMatchesAt(s, i) ==
    /\ i + 3 <= Len(s)
    /\ WordBoundary(s, i)
    /\ \A j \in i..(i + 3) : IsDigit(s[j])
    /\ WordBoundary(s, i + 4)

(* re.search: the leftmost match, 0 for None *)
re_search_year(s) ==
    IF \E i \in 1..Len(s) : YearMatchesAt(s, i)
    THEN CHOOSE i \in 1..Len(s) :
             YearMatchesAt(s, i) /\ \A j \in 1..(i - 1) : ~YearMatchesAt(s, j)
    ELSE 0

DigitValue(c) == (CHOOSE d \in 1..10 : Digits[d] = c) - 1

(* int(year_str) *)
RECURSIVE int(_)
int(digits) ==
    IF digits = <<>> THEN 0
    ELSE 10 * int(Front(digits)) + DigitValue(Last(digits))

get_era_from_date(date_str) ==
    IF date_str = <<>> THEN _UNKNOWN_ERA
    ELSE LET match == re_search_year(date_str)
         IN IF match = 0 THEN _UNKNOWN_ERA
            ELSE LET year == int(SubSeq(date_str, match, match + 3))
                     decade_key == ToString((year \div 10) * 10)
                 IN DictGet(ERA_DECADE_MAP, decade_key, decade_key \o "s")

----------------------------------------------------------------------------
(* format_retrieval_results.  A str is the tuple of its characters. *)

(* A MemoryNode with its text, the caption *)
MemoryNodeWithText(id, text, embedding, era) ==
    [id |-> id, text |-> text, embedding |-> embedding, era |-> era]

NoMatchMessage ==
    <<"N", "o", " ", "m", "a", "t", "c", "h", "i", "n", "g", " ", "m", "e",
      "m", "o", "r", "i", "e", "s", " ", "f", "o", "u", "n", "d", ".">>

ResultsHeader ==
    <<"R", "e", "l", "e", "v", "a", "n", "t", " ", "m", "e", "m", "o", "r",
      "i", "e", "s", " ", "(", "m", "o", "s", "t", " ", "s", "i", "m", "i",
      "l", "a", "r", " ", "f", "i", "r", "s", "t", ")", ":">>

(* What str.strip() removes *)
Whitespace == {" ", "\n", "\t"}

RECURSIVE lstrip(_)
lstrip(s) ==
    IF s # <<>> /\ Head(s) \in Whitespace THEN lstrip(Tail(s)) ELSE s

RECURSIVE rstrip(_)
rstrip(s) ==
    IF s # <<>> /\ Last(s) \in Whitespace THEN rstrip(Front(s)) ELSE s

strip(s) == rstrip(lstrip(s))

(* str(n) of an int n >= 0 *)
RECURSIVE str(_)
str(n) ==
    IF n < 10 THEN <<Digits[n + 1]>>
    ELSE str(n \div 10) \o <<Digits[(n % 10) + 1]>>

(* f"{score:.4f}": the sign, the integral part, 4 decimals *)
FormatScore(score) ==
    LET rounded == Abs(round4(score))
        decimals == rounded % 10000
    IN (IF score.n < 0 THEN <<"-">> ELSE <<>>)
       \o str(rounded \div 10000) \o <<".">>
       \o <<Digits[(decimals \div 1000) + 1], Digits[((decimals \div 100) % 10) + 1],
            Digits[((decimals \div 10) % 10) + 1], Digits[(decimals % 10) + 1]>>

(* Faulty variant: the first 200 characters are kept before the dots *)
GuardCaptionKeepingAll(caption) ==
    IF Len(caption) > 200 THEN SubSeq(caption, 1, 200) \o <<".", ".", ".">>
    ELSE caption

(* if len(caption) > 200: caption = caption[:197] + "..." *)
GuardCaption(caption) ==
    IF Len(caption) > 200 THEN SubSeq(caption, 1, 197) \o <<".", ".", ".">>
    ELSE caption

(* f'{idx}. [score={score_str}] "{caption}"' *)
FormatLine(idx, score_str, caption) ==
    str(idx) \o <<".", " ", "[", "s", "c", "o", "r", "e", "=">> \o score_str
             \o <<"]", " ", "\"">> \o caption \o <<"\"">>

(* for idx, result in enumerate(results, start=1) *)
RECURSIVE FormatLines(_, _, _)
FormatLines(results, idx, lines) ==
    IF idx > Len(results) THEN lines
    ELSE FormatLines(results, idx + 1,
             Append(lines,
                    FormatLine(idx, FormatScore(results[idx].score),
                               GuardCaption(strip(results[idx].node.text)))))

(* "\n".join(lines) *)
RECURSIVE JoinLines(_)
JoinLines(lines) ==
    IF lines = <<>> THEN <<>>
    ELSE IF Len(lines) = 1 THEN lines[1]
    ELSE lines[1] \o <<"\n">> \o JoinLines(Tail(lines))

format_retrieval_results(results) ==
    IF results = <<>> THEN NoMatchMessage
    ELSE JoinLines(FormatLines(results, 1, <<ResultsHeader>>))

----------------------------------------------------------------------------

(* The embedding provider: ai/embeddings/generate.py and                   *)
(* backend/app/services/amd_service.py.  What the AMD endpoint answers and *)
(* whether sentence-transformers can be imported is decided outside the    *)
(* program; the functions get it as the arguments remote and local.        *)

EmbeddingResult(text, embedding, backend) ==
    [text |-> text, embedding |-> embedding, backend |-> backend]

(* What the request to the AMD endpoint may end with: an embedding, an     *)
(* embedding of another dimension, or one of the failures                  *)
RemoteOutcomes ==
    {"ok", "ok_other_dimension", "timeout", "connect_error", "http_status",
     "malformed_body"}

(* Whether importing sentence_transformers succeeds *)
LocalOutcomes == {"ok", "not_installed"}

(* model.encode(text): some fixed encoder, vectors along the axes so that  *)
(* normalising them is exact                                               *)
LocalEncode(text) ==
    CASE text = "beach" -> <<3, 0>>
      [] text = "birthday" -> <<0, 4>>
      [] text = "garden" -> <<0 - 2, 0>>
      [] OTHER -> <<0, 0>>

(* The embedding in the body the AMD endpoint answers with *)
RemoteEncode(text, remote) ==
    IF remote = "ok_other_dimension" THEN <<0, 0, 5>>
    ELSE CASE text = "beach" -> <<5, 0>>
           [] text = "birthday" -> <<0, 2>>
           [] text = "garden" -> <<0, 3>>
           [] OTHER -> <<0, 0>>

(* _normalize: lines 79-84 of generate.py *)
_normalize(vector) ==
    LET magnitude == sqrt(Dot(vector, vector))
    IN IF magnitude = 0 THEN vector
       ELSE [i \in 1..Len(vector) |-> vector[i] \div magnitude]

(* _get_local_model raises RuntimeError when the import fails *)
generate_embedding_local(text, local) ==
    IF local = "not_installed" THEN Raise("RuntimeError")
    ELSE Return(EmbeddingResult(text, _normalize(LocalEncode(text)), "local"))

_generate_embedding_amd(text, remote) ==
    CASE remote = "timeout" -> Raise("TimeoutException")
      [] remote = "connect_error" -> Raise("ConnectError")
      [] remote = "http_status" -> Raise("HTTPStatusError")
      [] remote = "malformed_body" -> Raise("KeyError")
      [] OTHER -> Return(EmbeddingResult(text, _normalize(RemoteEncode(text, remote)), "amd"))

(* generate_embedding of generate.py; endpoint: AMD_ENDPOINT is set.       *)
(* except httpx.TimeoutException and except Exception both fall through to *)
(* the local backend.                                                      *)
generate_embedding(text, endpoint, remote, local) ==
    IF ~endpoint THEN generate_embedding_local(text, local)
    ELSE LET amd == _generate_embedding_amd(text, remote)
         IN IF ~Raised(amd) THEN amd
            ELSE generate_embedding_local(text, local)

(* _amd_cloud_embedding of amd_service.py: the vector as it was received *)
_amd_cloud_embedding(image_bytes, caption, remote) ==
    CASE remote = "timeout" -> Raise("TimeoutException")
      [] remote = "connect_error" -> Raise("ConnectError")
      [] remote = "http_status" -> Raise("HTTPStatusError")
      [] remote = "malformed_body" -> Raise("ValueError")
      [] OTHER -> Return(RemoteEncode(caption, remote))

(* The 64 digest bytes of sha512(image_bytes + caption), spread over the   *)
(* dimensions: some fixed function of the two                              *)
DigestVector(image_bytes, caption) ==
    IF image_bytes # <<>> THEN <<0 - 6, 0>>
    ELSE CASE caption = "beach" -> <<0, 3>>
           [] caption = "birthday" -> <<4, 0>>
           [] OTHER -> <<0, 0 - 2>>

(* _local_cpu_embedding: the digest vector over its norm, norm or 1.0; it  *)
(* raises nothing                                                          *)
_local_cpu_embedding(image_bytes, caption) ==
    LET raw == DigestVector(image_bytes, caption)
        norm == IF sqrt(Dot(raw, raw)) = 0 THEN 1 ELSE sqrt(Dot(raw, raw))
    IN [i \in 1..Len(raw) |-> raw[i] \div norm]

(* generate_embedding of amd_service.py: lines 73-102 *)
amd_service_generate_embedding(image_bytes, caption, remote) ==
    LET amd == _amd_cloud_embedding(image_bytes, caption, remote)
    IN IF ~Raised(amd) THEN amd
       ELSE IF amd.exc \in {"ConnectError", "TimeoutException", "HTTPStatusError"}
            THEN Return(_local_cpu_embedding(image_bytes, caption))
            ELSE amd

----------------------------------------------------------------------------

(* batch_generate_embeddings and process_memory_embeddings of generate.py. *)
(* A coroutine runs from one await to the next without interruption; the   *)
(* actions of SpecPipeline are these stretches.                            *)

(* Faulty variant: every caption is processed *)
FirstThirtyOrMore(captions) == captions

(* if len(captions) > 30: captions = captions[:30] *)
FirstThirty(captions) ==
    IF Len(captions) > 30 THEN SubSeq(captions, 1, 30) ELSE captions

(* Faulty variant: the documents are numbered from 1 *)
EmbeddingDocFromOne(memory_id, caption_index, embedding, caption) ==
    [path |-> <<"memories", memory_id, "embeddings", caption_index + 1>>,
     caption |-> caption, embedding |-> embedding,
     caption_index |-> caption_index + 1]

(* _store_embedding: memories/{memory_id}/embeddings/{caption_index} *)
EmbeddingDoc(memory_id, caption_index, embedding, caption) ==
    [path |-> <<"memories", memory_id, "embeddings", caption_index>>,
     caption |-> caption, embedding |-> embedding,
     caption_index |-> caption_index]

(* _store_graph: memories/{memory_id}/graph/edges *)
GraphDoc(memory_id, edge_dicts) ==
    [path |-> <<"memories", memory_id, "graph", "edges">>, edges |-> edge_dicts]

(* The nodes of process_memory_embeddings: zip() stops at the shorter of   *)
(* captions and embedding_results; id = f"{memory_id}_{idx}"               *)
ZipNodes(memory_id, captions, embedding_results) ==
    [i \in 1..Min(Len(captions), Len(embedding_results)) |->
        MemoryNodeWithText(memory_id \o <<"_">> \o str(i - 1), captions[i],
                           embedding_results[i].embedding, _UNKNOWN_ERA)]

(* How often the loops of build_semantic_graph call cosine_similarity,    *)
(* from row i on: the call that raises is the last one                     *)
RECURSIVE CountComparisons(_, _, _)
CountComparisons(node_list, i, count) ==
    IF i > Len(node_list) THEN count
    ELSE LET js == InnerStart(i)..Len(node_list)
             raising == {j \in js : Raised(cosine_similarity(node_list[i].embedding,
                                                             node_list[j].embedding))}
         IN IF raising # {}
            THEN count + Cardinality({j \in js : \A r \in raising : j <= r})
            ELSE CountComparisons(node_list, i + 1, count + Cardinality(js))

(* What the AMD endpoint answers to the request for caption idx: the first *)
(* request may fare differently from the later ones                        *)
RemoteOutcomeAt(env, idx) == IF idx = 0 THEN env.first ELSE env.rest

----------------------------------------------------------------------------

----------------------------------------------------------------------------
(* backend/app/routes/upload.py: POST /upload                              *)

(* None, and a str that may be None: the record of its characters *)
None == [none |-> TRUE]

Str(chars) == [str |-> chars]

(* bool(x) of a str that may be None *)
Truthy(x) == x # None /\ x.str # <<>>

_MAX_PHOTOS == 30

_MAX_PERSON_NAME_LEN == 100

_MAX_CAPTION_LEN == 500

_MAX_FILE_SIZE_BYTES == 10 * 1024 * 1024

_ALLOWED_IMAGE_MIMES == {<<"i", "m", "a", "g", "e", "/", "j", "p", "e", "g">>, <<"i", "m", "a", "g", "e", "/", "p", "n", "g">>, <<"i", "m", "a", "g", "e", "/", "w", "e", "b", "p">>}

_ALLOWED_IMAGE_EXTS == {<<".", "j", "p", "g">>, <<".", "j", "p", "e", "g">>, <<".", "p", "n", "g">>, <<".", "w", "e", "b", "p">>}

_ALLOWED_AUDIO_MIMES ==
    {<<"a", "u", "d", "i", "o", "/", "m", "p", "e", "g">>, <<"a", "u", "d", "i", "o", "/", "w", "a", "v">>, <<"a", "u", "d", "i", "o", "/", "o", "g", "g">>, <<"a", "u", "d", "i", "o", "/", "m", "p", "4">>,
     <<"a", "u", "d", "i", "o", "/", "w", "e", "b", "m">>, <<"a", "u", "d", "i", "o", "/", "x", "-", "m", "4", "a">>}

_ALLOWED_AUDIO_EXTS == {<<".", "m", "p", "3">>, <<".", "w", "a", "v">>, <<".", "o", "g", "g">>, <<".", "m", "4", "a">>, <<".", "w", "e", "b", "m">>}

(* A werkzeug FileStorage: the file name and the content type the client   *)
(* declared, "" where it declared none, and the length of the stream       *)
FileStorage(filename, content_type, size) ==
    [filename |-> filename, content_type |-> content_type, size |-> size]

(* str.lower() *)
UpperCase == <<"A", "B", "C", "D", "E", "F", "G", "H", "I", "J", "K", "L", "M", "N", "O", "P", "Q", "R", "S", "T", "U", "V", "W", "X", "Y", "Z">>

LowerCase == <<"a", "b", "c", "d", "e", "f", "g", "h", "i", "j", "k", "l", "m", "n", "o", "p", "q", "r", "s", "t", "u", "v", "w", "x", "y", "z">>

lower(s) ==
    [p \in 1..Len(s) |->
        IF \E u \in 1..Len(UpperCase) : UpperCase[u] = s[p]
        THEN LowerCase[CHOOSE u \in 1..Len(UpperCase) : UpperCase[u] = s[p]]
        ELSE s[p]]

(* The places of the character c in s *)
CharPlaces(s, c) == {p \in 1..Len(s) : s[p] = c}

(* s.rsplit(c, 1)[-1]: what follows the last c, all of s without a c *)
rsplit_last(s, c) ==
    IF CharPlaces(s, c) = {} THEN s
    ELSE SubSeq(s, (CHOOSE p \in CharPlaces(s, c) : \A q \in CharPlaces(s, c) : q <= p) + 1,
                Len(s))

(* s.split(c)[0]: what precedes the first c, all of s without a c *)
split_first(s, c) ==
    IF CharPlaces(s, c) = {} THEN s
    ELSE SubSeq(s, 1, (CHOOSE p \in CharPlaces(s, c) : \A q \in CharPlaces(s, c) : p <= q) - 1)

(* ext = ("." + filename.rsplit(".", 1)[-1].lower()) if "." in filename    *)
(*       else ""                                                           *)
FileExt(filename) ==
    IF CharPlaces(filename, ".") # {}
    THEN <<".">> \o lower(rsplit_last(filename, "."))
    ELSE <<>>

(* content_type = (f.content_type or "").split(";")[0].strip().lower() *)
MimeType(content_type) == lower(strip(split_first(content_type, ";")))

(* Faulty variant: an empty photo stream is let through *)
PhotoSizeErrorOversizedOnly(size, index) ==
    IF size > _MAX_FILE_SIZE_BYTES
    THEN Str(<<"photos[", ToString(index), "] is ", ToString(size),
               " bytes; maximum allowed is ", ToString(_MAX_FILE_SIZE_BYTES)>>)
    ELSE None

(* Lines 247-255: the two checks of the size of a photo *)
PhotoSizeError(size, index) ==
    IF size > _MAX_FILE_SIZE_BYTES
    THEN Str(<<"photos[", ToString(index), "] is ", ToString(size),
               " bytes; maximum allowed is ", ToString(_MAX_FILE_SIZE_BYTES)>>)
    ELSE IF size = 0
    THEN Str(<<"photos[", ToString(index), "] is empty">>)
    ELSE None

(* The messages keep the wording of the f-strings; a size is given in      *)
(* bytes where the code prints megabytes.                                  *)
_validate_image_file(photo, index) ==
    LET filename == photo.filename
        ext == FileExt(filename)
        content_type == MimeType(photo.content_type)
    IN  IF ext \notin _ALLOWED_IMAGE_EXTS
        THEN Str(<<"photos[", ToString(index), "] has unsupported extension '">>
                 \o ext \o <<"'">>)
        ELSE IF content_type # <<>> /\ content_type \notin _ALLOWED_IMAGE_MIMES
        THEN Str(<<"photos[", ToString(index), "] has unsupported MIME type '">>
                 \o content_type \o <<"'">>)
        ELSE PhotoSizeError(photo.size, index)

_validate_audio_file(voice) ==
    LET filename == voice.filename
        ext == FileExt(filename)
        content_type == MimeType(voice.content_type)
        size == voice.size
    IN  IF ext \notin _ALLOWED_AUDIO_EXTS
        THEN Str(<<"voice_recording has unsupported extension '">> \o ext \o <<"'">>)
        ELSE IF content_type # <<>> /\ content_type \notin _ALLOWED_AUDIO_MIMES
        THEN Str(<<"voice_recording has unsupported MIME type '">>
                 \o content_type \o <<"'">>)
        ELSE IF size = 0
        THEN Str(<<"voice_recording is empty">>)
        ELSE IF size > _MAX_FILE_SIZE_BYTES
        THEN Str(<<"voice_recording is ", ToString(size),
                   " bytes; maximum allowed is ", ToString(_MAX_FILE_SIZE_BYTES)>>)
        ELSE None

(* bool(voice): None is false, and so is a FileStorage without a file      *)
(* name, which is what werkzeug's FileStorage.__bool__ tests               *)
FileGiven(voice) == voice # None /\ voice.filename # <<>>

_validate_upload(photos, voice, captions, person_name) ==
    LET failing == {i \in 1..Len(photos) :
                       Truthy(_validate_image_file(photos[i], i - 1))}
    IN  IF person_name = <<>>
        THEN Str(<<"person_name is required">>)
        ELSE IF Len(person_name) > _MAX_PERSON_NAME_LEN
        THEN Str(<<"person_name must be ", ToString(_MAX_PERSON_NAME_LEN),
                   " characters or fewer">>)
        ELSE IF photos = <<>>
        THEN Str(<<"At least one photo is required in photos[]">>)
        ELSE IF ~FileGiven(voice)
        THEN Str(<<"voice_recording is required">>)
        ELSE IF Len(photos) > _MAX_PHOTOS
        THEN Str(<<"Maximum ", ToString(_MAX_PHOTOS), " photos allowed; received ",
                   ToString(Len(photos))>>)
        ELSE IF Len(captions) # Len(photos)
        THEN Str(<<"captions[] length (", ToString(Len(captions)),
                   ") must match photos[] length (", ToString(Len(photos)), ")">>)
        ELSE IF failing # {}
        THEN LET i == CHOOSE i \in failing : \A j \in failing : i <= j
             IN  _validate_image_file(photos[i], i - 1)
        ELSE _validate_audio_file(voice)

(* quarter = total / 4 is a float: index < quarter * m is                  *)
(* 4 * index < total * m                                                   *)
_infer_era(index, total) ==
    IF total <= 1 THEN "recent"
    ELSE IF 4 * index < total THEN "childhood"
    ELSE IF 4 * index < total * 2 THEN "young-adult"
    ELSE IF 4 * index < total * 3 THEN "family"
    ELSE "recent"

_safe_ext(filename, allowed_exts, default) ==
    IF CharPlaces(filename, ".") # {} /\ FileExt(filename) \in allowed_exts
    THEN FileExt(filename)
    ELSE default

(* s[:stop] of a str, stop >= 0 *)
StrUpTo(s, stop) == SubSeq(s, 1, Min(stop, Len(s)))

(* x or default, of a str *)
Or(x, default) == IF x # <<>> THEN x ELSE default

(* jsonify(body), status *)
Response(status, body) == [status |-> status, body |-> body]

(* uuid.uuid4(): the next UUID after the issued that were drawn *)
uuid4(issued) == <<"uuid", issued + 1>>

(* A blob of Firebase Storage *)
Blob(destination_path, content_type) ==
    [destination_path |-> destination_path, content_type |-> content_type]

(* The calls of firebase_service.upload_file_to_storage that lines 106-124 *)
(* make when none raises: the voice recording, then the photos in order.   *)
(* The UUID of photo idx is the one drawn after those of the photos before *)
(* it.                                                                     *)
UploadCalls(photos, voice, issued) ==
    LET memory_id == uuid4(issued - 1)
    IN  <<Blob(<<"memories", memory_id, "voice", "recording",
                 _safe_ext(voice.filename, _ALLOWED_AUDIO_EXTS, <<".", "m", "p", "3">>)>>,
               Or(voice.content_type, <<"a", "u", "d", "i", "o", "/", "m", "p", "e", "g">>))>>
        \o [i \in 1..Len(photos) |->
               Blob(<<"memories", memory_id, "photos", uuid4(issued + i - 1),
                      _safe_ext(photos[i].filename, _ALLOWED_IMAGE_EXTS, <<".", "j", "p", "g">>)>>,
                    Or(photos[i].content_type, <<"i", "m", "a", "g", "e", "/", "j", "p", "e", "g">>))]

(* photo_docs of lines 114-134, zip(photos, captions) *)
PhotoDocs(photos, captions, issued) ==
    LET memory_id == uuid4(issued - 1)
    IN  [i \in 1..Min(Len(photos), Len(captions)) |->
            [photo_id |-> uuid4(issued + i - 1),
             url |-> <<"signed", "memories", memory_id, "photos", uuid4(issued + i - 1)>>,
             storage_path |-> <<"memories", memory_id, "photos", uuid4(issued + i - 1),
                                _safe_ext(photos[i].filename, _ALLOWED_IMAGE_EXTS,
                                          <<".", "j", "p", "g">>)>>,
             caption |-> StrUpTo(strip(captions[i]), _MAX_CAPTION_LEN),
             date |-> <<>>,
             era |-> _infer_era(i - 1, Len(photos))]]

(* firebase_service.save_memory_to_firestore: the memory document, then    *)
(* one document per photo                                                  *)
save_memory_to_firestore(memory_id, person_name, voice_storage_path, photo_docs) ==
    <<[path |-> <<"memories", memory_id>>,
       person_name |-> person_name, status |-> "processing",
       voice_id |-> None, kb_id |-> None, agent_id |-> None,
       voice_storage_path |-> voice_storage_path]>>
    \o [i \in 1..Len(photo_docs) |->
           [path |-> <<"memories", memory_id, "photos", photo_docs[i].photo_id>>,
            url |-> photo_docs[i].url,
            storage_path |-> photo_docs[i].storage_path,
            caption |-> photo_docs[i].caption, date |-> photo_docs[i].date,
            era |-> photo_docs[i].era, embedding |-> None]]

(* The threads that lines 151 and 154 start; _queue_elevenlabs_provisioning *)
(* starts none without ELEVENLABS_API_KEY                                  *)
QueuedJobs(memory_id, photo_docs, elevenlabs_api_key) ==
    <<[thread |-> "embed", memory_id |-> memory_id, photos |-> Len(photo_docs)]>>
    \o (IF elevenlabs_api_key
        THEN <<[thread |-> "el-provision", memory_id |-> memory_id, photos |-> 0]>>
        ELSE <<>>)

(* handle_upload: the response, and what the call added to the storage     *)
(* bucket, to Firestore and to the background threads.  issued is the      *)
(* number of UUIDs drawn before the call.  env tells which call of         *)
(* upload_file_to_storage raises, if any (raises_at, 0 for none), whether  *)
(* it raises before the blob is written (upload_from_file) or after it     *)
(* (generate_signed_url), whether save_memory_to_firestore raises, and     *)
(* whether ELEVENLABS_API_KEY is set.                                      *)
handle_upload(request, env, issued) ==
    LET photos == request.photos
        voice == request.voice_recording
        captions == request.captions
        person_name == strip(request.person_name)
        error == _validate_upload(photos, voice, captions, person_name)
        untouched == [storage |-> <<>>, firestore |-> <<>>, background |-> <<>>]
    IN  IF Truthy(error)
        THEN [response |-> Response(400, [error |-> "validation_failed",
                                          detail |-> error.str]),
              issued |-> issued] @@ untouched
        ELSE
        LET memory_id == uuid4(issued)
            calls == UploadCalls(photos, voice, issued + 1)
            photo_docs == PhotoDocs(photos, captions, issued + 1)
            server_error == Response(500, [error |-> "server_error",
                detail |-> <<"An internal error occurred. Please try again.">>])
        IN  IF env.raises_at \in 1..Len(calls)
            THEN [response |-> server_error,
                  issued |-> issued + env.raises_at,
                  storage |-> SubSeq(calls, 1,
                                     IF env.raises_in = "generate_signed_url"
                                     THEN env.raises_at ELSE env.raises_at - 1),
                  firestore |-> <<>>,
                  background |-> <<>>]
            ELSE IF env.firestore_raises
            THEN [response |-> server_error,
                  issued |-> issued + 1 + Len(photo_docs),
                  storage |-> calls,
                  firestore |-> <<>>,
                  background |-> <<>>]
            ELSE [response |-> Response(200, [memory_id |-> memory_id,
                                              status |-> "processing"]),
                  issued |-> issued + 1 + Len(photo_docs),
                  storage |-> calls,
                  firestore |-> save_memory_to_firestore(
                                    memory_id, person_name,
                                    calls[1].destination_path, photo_docs),
                  background |-> QueuedJobs(memory_id, photo_docs,
                                            env.elevenlabs_api_key)]

----------------------------------------------------------------------------
(* backend/app/services/elevenlabs_service.py: _post_with_retry            *)

_MAX_RETRIES == 3

_BACKOFF_BASE == 2

RECURSIVE Pow2(_)
Pow2(n) == IF n = 0 THEN 1 ELSE 2 * Pow2(n - 1)

(* wait = _BACKOFF_BASE * (2**attempt), in seconds *)
BackoffWait(attempt) == _BACKOFF_BASE * Pow2(attempt)

(* Faulty variant: one more retry is granted *)
StopsRetryingOneLater(status_code, attempt) ==
    status_code # 429 \/ attempt > _MAX_RETRIES

(* if response.status_code != 429 or attempt >= _MAX_RETRIES *)
StopsRetrying(status_code, attempt) ==
    status_code # 429 \/ attempt >= _MAX_RETRIES

(* response.raise_for_status(); return response *)
raise_for_status(status_code) ==
    IF status_code \in 200..299 THEN Return(status_code) ELSE Raise("HTTPStatusError")

(* The files argument is an open audio file, which has seek ("stream"),    *)
(* the encoded bytes of the knowledge base, which have not ("bytes"), or   *)
(* there is none ("none").                                                 *)

(* The length of the payload in the files argument *)
PayloadLen == 2

(* What one POST sends of the files argument: a stream from where it       *)
(* stands, bytes whole                                                     *)
BodySent(files, stream_at) ==
    IF files = "stream" THEN PayloadLen - stream_at
    ELSE IF files = "bytes" THEN PayloadLen
    ELSE 0

----------------------------------------------------------------------------

(* Reading a memory back and the writes of the background jobs:            *)
(* services/firebase_service.py, routes/embeddings.py and routes/upload.py. *)
(* Firestore is the sequence of its documents in the order they were       *)
(* created; update() changes a document in place.  photos_ref.stream() is  *)
(* taken to yield the photo documents in that order.                       *)

(* dict.get(key) *)
get(dict, key) == IF key \in DOMAIN dict THEN dict[key] ELSE None

(* A list[float] in a field that may hold None *)
Vector(v) == [vector |-> v]

(* The text of a caption, as the encoders are defined on it *)
AsText(caption) ==
    CASE caption = <<"b", "e", "a", "c", "h">> -> "beach"
      [] caption = <<"g", "a", "r", "d", "e", "n">> -> "garden"
      [] OTHER -> ""

(* snap.exists of the document at a path *)
exists(fs, path) == \E i \in 1..Len(fs) : fs[i].path = path

(* snap.to_dict() *)
to_dict(fs, path) == fs[CHOOSE i \in 1..Len(fs) : fs[i].path = path]

(* ref.update({field: value}) *)
update(fs, path, field, value) ==
    [i \in 1..Len(fs) |->
        IF fs[i].path = path THEN [fs[i] EXCEPT ![field] = value] ELSE fs[i]]

(* firebase_service.get_all_photos_for_memory *)
get_all_photos_for_memory(fs, memory_id) ==
    LET docs == SelectSeq(fs, LAMBDA d : /\ Len(d.path) = 4
                                          /\ d.path[2] = memory_id
                                          /\ d.path[3] = "photos")
    IN  [i \in 1..Len(docs) |->
            [id |-> docs[i].path[4], photo_id |-> docs[i].path[4],
             url |-> docs[i].url, storagePath |-> docs[i].url,
             storage_path |-> docs[i].storage_path,
             caption |-> docs[i].caption, date |-> docs[i].date,
             era |-> docs[i].era, uploadedAt |-> <<>>,
             embedding |-> docs[i].embedding]]

(* firebase_service.get_memory_from_firestore: None, or the dict of lines  *)
(* 198-207, which has no key kb_id (created_at, a time, is left out)       *)
get_memory_from_firestore(fs, memory_id) ==
    IF ~exists(fs, <<"memories", memory_id>>) THEN None
    ELSE LET data == to_dict(fs, <<"memories", memory_id>>)
             photos == get_all_photos_for_memory(fs, memory_id)
         IN  [id |-> memory_id,
              person_name |-> data.person_name,
              status |-> data.status,
              voice_id |-> data.voice_id,
              agent_id |-> data.agent_id,
              embedding_ready |-> /\ photos # <<>>
                                  /\ \A i \in 1..Len(photos) :
                                        photos[i].embedding # None,
              photos |-> photos]

update_photo_embedding(fs, memory_id, photo_id, embedding) ==
    update(fs, <<"memories", memory_id, "photos", photo_id>>, "embedding",
           Vector(embedding))

update_memory_status(fs, memory_id, status) ==
    update(fs, <<"memories", memory_id>>, "status", status)

update_memory_voice_id(fs, memory_id, voice_id) ==
    update(fs, <<"memories", memory_id>>, "voice_id", voice_id)

update_memory_agent_id(fs, memory_id, agent_id) ==
    update(fs, <<"memories", memory_id>>, "agent_id", agent_id)

update_memory_kb_id(fs, memory_id, kb_id) ==
    update(fs, <<"memories", memory_id>>, "kb_id", kb_id)

(* Faulty variant: the batch job reports success whatever failed *)
final_status_always_ready(failed) == "ready"

(* _run_batch, lines 191-192 *)
final_status(failed) == IF failed = 0 THEN "ready" ELSE "error"

(* Faulty variant: the upload's embedding job ends as the batch job does *)
_run_embeddings_end_sets_status(fs, memory_id, failed) ==
    update_memory_status(fs, memory_id, final_status(failed))

(* _run_embeddings after its loop, lines 535-541: a log line, no write *)
_run_embeddings_end(fs, memory_id, failed) == fs

(* trigger_embedding of routes/embeddings.py: the response and the thread  *)
(* it starts.  body is the JSON body, a dict; lookup_raises tells whether  *)
(* get_memory_from_firestore raises.                                       *)
trigger_embedding(body, fs, lookup_raises) ==
    LET given == get(body, "memory_id")
        memory_id == IF given = None THEN <<>>
                     ELSE IF given.str # <<>> /\ given.str[1] = "uuid"
                          THEN given.str   \* a UUID: no whitespace to strip
                          ELSE strip(given.str)
        memory == get_memory_from_firestore(fs, memory_id)
    IN  IF memory_id = <<>>
        THEN [response |-> Response(400, [error |-> "validation_failed",
                  detail |-> <<"memory_id is required in JSON body">>]),
              background |-> <<>>]
        ELSE IF lookup_raises
        THEN [response |-> Response(500, [error |-> "server_error",
                  detail |-> <<"An internal error occurred. Please try again.">>]),
              background |-> <<>>]
        ELSE IF memory = None
        THEN [response |-> Response(404, [error |-> "not_found",
                  detail |-> <<"Memory '", memory_id, "' does not exist">>]),
              background |-> <<>>]
        ELSE IF memory.photos = <<>>
        THEN [response |-> Response(200, [status |-> "no_photos",
                  memory_id |-> memory_id, photo_count |-> 0,
                  detail |-> <<"No photos found for this memory">>]),
              background |-> <<>>]
        ELSE [response |-> Response(200, [status |-> "queued",
                  memory_id |-> memory_id,
                  photo_count |-> Len(memory.photos)]),
              background |-> <<[thread |-> "embed-batch",
                                memory_id |-> memory_id,
                                photos |-> memory.photos]>>]

(* retry_agent of routes/upload.py: the response and the thread it starts  *)
retry_agent(memory_id, fs) ==
    LET memory == get_memory_from_firestore(fs, memory_id)
        voice_id == get(memory, "voice_id")
        kb_id == get(memory, "kb_id")
        person_name == memory.person_name
    IN  IF memory = None
        THEN [response |-> Response(404,
                  [error |-> <<"Memory ", memory_id, " not found">>]),
              background |-> <<>>]
        ELSE IF ~Truthy(voice_id)
        THEN [response |-> Response(400,
                  [error |-> <<"voice_id not set - run full upload first">>]),
              background |-> <<>>]
        ELSE IF ~Truthy(kb_id)
        THEN [response |-> Response(400,
                  [error |-> <<"kb_id not set - run full upload first">>]),
              background |-> <<>>]
        ELSE [response |-> Response(200, [memory_id |-> memory_id,
                                          status |-> "processing"]),
              background |-> <<[thread |-> "retry-agent",
                                memory_id |-> memory_id,
                                voice_id |-> voice_id, kb_id |-> kb_id,
                                person_name |-> person_name]>>]

(* The arguments the calls are made with *)

(* Node ids as process_memory_embeddings builds them, f"{memory_id}_{idx}" *)
IdPool ==
    << <<"m", "_", "2">>, <<"m", "_", "1", "0">>, <<"m", "_", "1">>,
       <<"m", "_", "3">>, <<"m", "_", "2", "0">> >>

Ids == {IdPool[i] : i \in 1..MaxNodes}

(* An id no node carries *)
UnknownId == <<"m", "_", "9">>

(* Embeddings: integral norms 1, 5 and 13, the zero vector, and one vector *)
(* of another dimension                                                     *)
Vectors ==
    {<<1, 0>>, <<0, 1>>, <<3, 4>>, <<4, 3>>, <<5, 12>>, <<0 - 3, 0 - 4>>,
     <<0, 0>>, <<1, 0, 0>>}

QueryVectors == {<<3, 4>>, <<0, 0>>, <<1, 0, 0>>}

RetrievalVectors == {<<0, 1>>, <<3, 4>>, <<0, 0>>, <<1, 0, 0>>}

Eras == {"1980s", _UNKNOWN_ERA}

(* 0.7 is the default of SIMILARITY_THRESHOLD; 0.6 and 1 are similarities  *)
(* the vectors reach exactly; 0.96922 lies between 63/65 rounded to 4      *)
(* decimals and 63/65                                                      *)
Thresholds ==
    {Rat(0 - 1, 1), Rat(0, 1), Rat(3, 5), Rat(7, 10), Rat(96922, 100000),
     Rat(1, 1)}

(* k: a negative one, 0, and up to more than there are nodes *)
KValues == (0 - 1)..(MaxNodes + 1)

(* The node lists with the ids idseq, embeddings of V and eras of E *)
NodeListsOver(idseq, V, E) ==
    {[i \in 1..Len(idseq) |-> MemoryNode(idseq[i], v[i], e[i])] :
        v \in [1..Len(idseq) -> V], e \in [1..Len(idseq) -> E]}

(* build_semantic_graph and find_memory_clusters only copy ids and test    *)
(* them for equality, so their nodes carry the first ids of the pool in    *)
(* pool order; retrieve_top_k orders ids, so its nodes carry them in every *)
(* order.  Ids are unique, as process_memory_embeddings makes them.        *)
PoolPrefixes == {SubSeq(IdPool, 1, n) : n \in 0..MaxNodes}

(* A MemoryEdge list as a caller may pass it: any endpoints, in any        *)
(* direction, also self-edges and ids no node carries                      *)
EdgeLists ==
    SeqsUpTo({MemoryEdge(s, t, 10000) : s, t \in Ids \cup {UnknownId}}, MaxEdges)

(* Nothing was called yet and nothing was written *)
InitRest ==
    /\ pc = "start"
    /\ threshold = Zero
    /\ edges = <<>>
    /\ query = <<>>
    /\ k = 0
    /\ result = NoResult
    /\ locals = <<>>
    /\ in_flight = {}
    /\ firestore = <<>>
    /\ storage = <<>>
    /\ background = <<>>
    /\ elevenlabs = <<>>
    /\ globals = <<>>

InitArgs ==
    /\ InitRest
    /\ args = <<>>

----------------------------------------------------------------------------
(* Spec: the graph pipeline, build_semantic_graph and then                 *)
(* find_memory_clusters on the edges it returned                           *)

Init ==
    /\ nodes \in UNION {NodeListsOver(idseq, Vectors, {_UNKNOWN_ERA}) :
                           idseq \in PoolPrefixes}
    /\ InitArgs

BuildGraph ==
    /\ pc = "start"
    /\ \E t \in Thresholds :
          /\ threshold' = t
          /\ result' = build_semantic_graph(nodes, t)
    /\ pc' = "build_semantic_graph"
    /\ UNCHANGED <<nodes, edges, query, k, args, locals, world>>

ClusterGraph ==
    /\ pc = "build_semantic_graph"
    /\ ~Raised(result)
    /\ edges' = result.value
    /\ result' = find_memory_clusters(nodes, result.value)
    /\ pc' = "find_memory_clusters"
    /\ UNCHANGED <<nodes, threshold, query, k, args, locals, world>>

Next == BuildGraph \/ ClusterGraph

Spec == Init /\ [][Next]_vars

----------------------------------------------------------------------------
(* SpecClusters: find_memory_clusters on any edge list *)

InitClusters ==
    /\ nodes \in UNION {NodeListsOver(idseq, {<<1, 0>>}, Eras) :
                           idseq \in PoolPrefixes}
    /\ InitArgs

FindClusters ==
    /\ pc = "start"
    /\ \E es \in EdgeLists :
          /\ edges' = es
          /\ result' = find_memory_clusters(nodes, es)
    /\ pc' = "find_memory_clusters"
    /\ UNCHANGED <<nodes, threshold, query, k, args, locals, world>>

NextClusters == FindClusters

SpecClusters == InitClusters /\ [][NextClusters]_vars

----------------------------------------------------------------------------
(* SpecRetrieval: retrieve_top_k *)

InitRetrieval ==
    /\ nodes \in UNION {NodeListsOver(idseq, RetrievalVectors, {_UNKNOWN_ERA}) :
                           idseq \in InjSeqs(Ids, MaxNodes)}
    /\ InitArgs

RetrieveTopK ==
    /\ pc = "start"
    /\ \E q \in QueryVectors, kk \in KValues :
          /\ query' = q
          /\ k' = kk
          /\ result' = retrieve_top_k(q, nodes, kk)
    /\ pc' = "retrieve_top_k"
    /\ UNCHANGED <<nodes, threshold, edges, args, locals, world>>

NextRetrieval == RetrieveTopK

SpecRetrieval == InitRetrieval /\ [][NextRetrieval]_vars

----------------------------------------------------------------------------
(* SpecScoring: the calls that compare embeddings *)

InitScoring == Init \/ InitRetrieval

NextScoring == BuildGraph \/ RetrieveTopK

SpecScoring == InitScoring /\ [][NextScoring]_vars

----------------------------------------------------------------------------
(* SpecLabels: the graph pipeline on nodes of different eras *)

LabelVectors == {<<0, 1>>, <<1, 0>>, <<3, 4>>}

InitLabels ==
    /\ nodes \in UNION {NodeListsOver(idseq, LabelVectors, Eras) :
                           idseq \in PoolPrefixes}
    /\ InitArgs

NextLabels == BuildGraph \/ ClusterGraph

SpecLabels == InitLabels /\ [][NextLabels]_vars

----------------------------------------------------------------------------
(* SpecEraStrings: the same two calls on nodes whose eras hold underscores *)
(* and digits, each era a label of another era cut short                   *)

EraStrings == {"x", "x_0", "x_0_0"}

InitEraStrings ==
    /\ nodes \in UNION {NodeListsOver(idseq, LabelVectors, EraStrings) :
                           idseq \in PoolPrefixes}
    /\ InitArgs

NextEraStrings == BuildGraph \/ ClusterGraph

SpecEraStrings == InitEraStrings /\ [][NextEraStrings]_vars

----------------------------------------------------------------------------
(* SpecCosine: cosine_similarity called directly, and through              *)
(* build_semantic_graph                                                     *)

(* The vectors of the graph and a zero vector of the other dimension *)
CosineVectors == Vectors \cup {<<0, 0, 0>>}

CosineSimilarity ==
    /\ pc = "start"
    /\ \E a, b \in CosineVectors :
          /\ args' = <<a, b>>
          /\ result' = cosine_similarity(a, b)
    /\ pc' = "cosine_similarity"
    /\ UNCHANGED <<nodes, threshold, edges, query, k, locals, world>>

NextCosine == BuildGraph \/ CosineSimilarity

SpecCosine == Init /\ [][NextCosine]_vars

----------------------------------------------------------------------------

(* SpecEra: get_era_from_date *)

(* What date strings are put together from: years inside and outside the   *)
(* table, one below 1000, a run of two digits, a letter, the underscore    *)
(* and two separators                                                      *)
DateTokens ==
    {<<"1", "9", "8", "5">>, <<"2", "0", "3", "5">>, <<"0", "0", "0", "5">>,
     <<"1", "9">>, <<"T">>, <<"_">>, <<"-">>, <<" ">>}

RECURSIVE DateStrings(_)
DateStrings(n) ==
    IF n = 0 THEN {<<>>}
    ELSE LET shorter == DateStrings(n - 1)
         IN shorter \cup {s \o t : s \in shorter, t \in DateTokens}

InitEra ==
    /\ nodes = <<>>
    /\ InitArgs

GetEraFromDate ==
    /\ pc = "start"
    /\ \E date_str \in DateStrings(MaxDateTokens) :
          /\ args' = <<date_str>>
          /\ result' = Return(get_era_from_date(date_str))
    /\ pc' = "get_era_from_date"
    /\ UNCHANGED <<nodes, threshold, edges, query, k, locals, world>>

NextEra == GetEraFromDate

SpecEra == InitEra /\ [][NextEra]_vars

----------------------------------------------------------------------------

(* SpecFormat: format_retrieval_results *)

(* The characters of a caption body: digits, a line break at place 2 and a *)
(* space at every 7th place                                                *)
BodyChar(i) ==
    IF i = 2 THEN "\n" ELSE IF i % 7 = 0 THEN " " ELSE Digits[(i % 10) + 1]

CaptionBody(n) == [i \in 1..n |-> BodyChar(i)]

(* Short bodies and the lengths around 197 and 200 *)
CaptionLengths == {0, 1, 3} \cup (196..MaxCaptionLen)

Captions ==
    {lead \o CaptionBody(n) \o trail :
        lead \in {<<>>, <<"\n", " ">>}, trail \in {<<>>, <<" ">>},
        n \in CaptionLengths}

(* Scores: one that rounds down, a negative exact half, a negative that    *)
(* rounds to zero                                                          *)
Scores == {Rat(63, 65), Rat(0 - 1, 32), Rat(0 - 1, 100000)}

HitsOver(C, S) ==
    {RetrievalResult(MemoryNodeWithText(IdPool[1], c, <<1, 0>>, _UNKNOWN_ERA), s) :
        c \in C, s \in S}

(* Every hit alone, and the lists of a padded short and a long caption *)
HitLists ==
    {<<>>}
    \cup {<<h>> : h \in HitsOver(Captions, Scores)}
    \cup {hs \in SeqsUpTo(HitsOver({<<" ">> \o CaptionBody(3),
                                    CaptionBody(MaxCaptionLen - 1)},
                                   {Rat(63, 65), Rat(0 - 1, 32)}), MaxHits) :
             Len(hs) >= 2}

InitFormat ==
    /\ nodes = <<>>
    /\ InitArgs

FormatRetrievalResults ==
    /\ pc = "start"
    /\ \E results \in HitLists :
          /\ args' = <<results>>
          /\ result' = Return(format_retrieval_results(results))
    /\ pc' = "format_retrieval_results"
    /\ UNCHANGED <<nodes, threshold, edges, query, k, locals, world>>

NextFormat == FormatRetrievalResults

SpecFormat == InitFormat /\ [][NextFormat]_vars

----------------------------------------------------------------------------

(* SpecEmbedding: the two embedding entry points, whatever the AMD         *)
(* endpoint answers and whether or not the local model can be loaded       *)

Texts == {"", "beach", "birthday", "garden"}

ImageBytes == {<<>>, <<255, 216>>}

InitEmbedding ==
    /\ nodes = <<>>
    /\ InitArgs

GenerateEmbedding ==
    /\ pc = "start"
    /\ \E text \in Texts, endpoint \in BOOLEAN,
          remote \in RemoteOutcomes, local \in LocalOutcomes :
          /\ args' = <<text, endpoint, remote, local>>
          /\ result' = generate_embedding(text, endpoint, remote, local)
    /\ pc' = "generate_embedding"
    /\ UNCHANGED <<nodes, threshold, edges, query, k, locals, world>>

AmdServiceGenerateEmbedding ==
    /\ pc = "start"
    /\ \E image_bytes \in ImageBytes, caption \in Texts, remote \in RemoteOutcomes :
          /\ args' = <<image_bytes, caption, remote>>
          /\ result' = amd_service_generate_embedding(image_bytes, caption, remote)
    /\ pc' = "amd_service.generate_embedding"
    /\ UNCHANGED <<nodes, threshold, edges, query, k, locals, world>>

NextEmbedding == GenerateEmbedding \/ AmdServiceGenerateEmbedding

SpecEmbedding == InitEmbedding /\ [][NextEmbedding]_vars

----------------------------------------------------------------------------

(* SpecPipeline: process_memory_embeddings, from fetching the captions to  *)
(* storing the graph                                                       *)

Environment(endpoint, first, rest, local) ==
    [endpoint |-> endpoint, first |-> first, rest |-> rest, local |-> local]

(* No endpoint; an endpoint that works; one that times out after the first *)
(* request; one whose model has another dimension than the local one; and  *)
(* backends that both fail                                                 *)
Environments ==
    {Environment(FALSE, "ok", "ok", "ok"),
     Environment(FALSE, "ok", "ok", "not_installed"),
     Environment(TRUE, "ok", "ok", "not_installed"),
     Environment(TRUE, "ok", "timeout", "ok"),
     Environment(TRUE, "ok_other_dimension", "connect_error", "ok"),
     Environment(TRUE, "ok", "malformed_body", "not_installed")}

(* The captions _fetch_captions returns, n of them *)
CaptionCycle == <<"beach", "birthday", "garden", "">>

FetchedCaptions(n) == [i \in 1..n |-> CaptionCycle[((i - 1) % 4) + 1]]

(* SIMILARITY_THRESHOLD: the default 0.7, and 0 *)
PipelineThresholds == {Rat(7, 10), Rat(0, 1)}

InitPipeline ==
    /\ nodes = <<>>
    /\ InitRest
    /\ args \in {[memory_id |-> <<"m">>, fetched |-> FetchedCaptions(n),
                  env |-> env, threshold |-> t] :
                    n \in 0..MaxCaptions, env \in Environments,
                    t \in PipelineThresholds}

(* captions = await _fetch_captions(memory_id); if not captions: return;   *)
(* then into batch_generate_embeddings up to its loop                      *)
FetchCaptions ==
    /\ pc = "start"
    /\ locals' = [captions |-> args.fetched,
                  batch |-> FirstThirty(args.fetched),
                  idx |-> 0, result |-> <<>>, results |-> <<>>,
                  comparisons |-> 0]
    /\ IF args.fetched = <<>>
       THEN pc' = "returned" /\ result' = Return(<<>>)
       ELSE pc' = "batch_loop" /\ result' = result
    /\ UNCHANGED <<nodes, threshold, edges, query, k, args, world>>

(* for idx, caption in enumerate(captions): the request is sent *)
RequestEmbedding ==
    /\ pc = "batch_loop"
    /\ locals.idx < Len(locals.batch)
    /\ in_flight' = in_flight \cup {locals.idx}
    /\ pc' = "awaiting_embedding"
    /\ UNCHANGED <<nodes, threshold, edges, query, k, result, args, locals,
                   firestore, storage, background,
                   elevenlabs, globals>>

(* result = await generate_embedding_with_timing(caption): it returns, or  *)
(* raises through batch_generate_embeddings and process_memory_embeddings  *)
EmbeddingReturns ==
    /\ pc = "awaiting_embedding"
    /\ LET returned == generate_embedding(locals.batch[locals.idx + 1],
                                          args.env.endpoint,
                                          RemoteOutcomeAt(args.env, locals.idx),
                                          args.env.local)
       IN IF Raised(returned)
          THEN pc' = "raised" /\ result' = returned /\ locals' = locals
          ELSE /\ pc' = "storing_embedding"
               /\ result' = result
               /\ locals' = [locals EXCEPT !.result = returned.value]
    /\ in_flight' = in_flight \ {locals.idx}
    /\ UNCHANGED <<nodes, threshold, edges, query, k, args,
                   firestore, storage, background,
                   elevenlabs, globals>>

(* await _store_embedding(memory_id, idx, result.embedding, caption);      *)
(* results.append(result)                                                  *)
StoreEmbedding ==
    /\ pc = "storing_embedding"
    /\ firestore' = Append(firestore,
                           EmbeddingDoc(args.memory_id, locals.idx,
                                        locals.result.embedding,
                                        locals.batch[locals.idx + 1]))
    /\ locals' = [locals EXCEPT !.results = Append(@, locals.result),
                                !.idx = @ + 1]
    /\ pc' = "batch_loop"
    /\ UNCHANGED <<nodes, threshold, edges, query, k, result, args,
                   in_flight, storage, background,
                   elevenlabs, globals>>

(* batch_generate_embeddings returns its results; the nodes are built and  *)
(* build_semantic_graph is called: lines 373-385                           *)
BuildPipelineGraph ==
    /\ pc = "batch_loop"
    /\ locals.idx = Len(locals.batch)
    /\ nodes' = ZipNodes(args.memory_id, locals.captions, locals.results)
    /\ threshold' = args.threshold
    /\ locals' = [locals EXCEPT
                     !.comparisons = CountComparisons(nodes', 1, 0)]
    /\ LET built == build_semantic_graph(nodes', args.threshold)
       IN IF Raised(built)
          THEN pc' = "raised" /\ result' = built /\ edges' = edges
          ELSE pc' = "storing_graph" /\ result' = result /\ edges' = built.value
    /\ UNCHANGED <<query, k, args, world>>

(* await _store_graph(memory_id, edge_dicts); return *)
StoreGraph ==
    /\ pc = "storing_graph"
    /\ firestore' = Append(firestore, GraphDoc(args.memory_id, edges))
    /\ pc' = "returned"
    /\ result' = Return(<<>>)
    /\ UNCHANGED <<nodes, threshold, edges, query, k, args, locals,
                   in_flight, storage, background,
                   elevenlabs, globals>>

NextPipeline ==
    \/ FetchCaptions
    \/ RequestEmbedding
    \/ EmbeddingReturns
    \/ StoreEmbedding
    \/ BuildPipelineGraph
    \/ StoreGraph

SpecPipeline == InitPipeline /\ [][NextPipeline]_vars

----------------------------------------------------------------------------

(* SpecUnionFind: _make_union_find on the ids of the nodes, then _find and *)
(* _union in any order and number, on ids of the map and on an id that is  *)
(* not a key of it.  locals holds the parent dict, which the calls share.  *)

MakeUnionFind ==
    /\ pc = "start"
    /\ args' = <<[i \in 1..Len(nodes) |-> nodes[i].id]>>
    /\ locals' = [parent |-> _make_union_find([i \in 1..Len(nodes) |-> nodes[i].id])]
    /\ result' = Return(<<>>)
    /\ pc' = "_make_union_find"
    /\ UNCHANGED <<nodes, threshold, edges, query, k, world>>

(* parent[nid] of an id that is no key raises KeyError *)
Find ==
    /\ pc # "start"
    /\ \E nid \in Ids \cup {UnknownId} :
          /\ args' = <<nid>>
          /\ IF nid \in DOMAIN locals.parent
             THEN /\ locals' = [parent |-> _find(locals.parent, nid).parent]
                  /\ result' = Return(_find(locals.parent, nid).root)
             ELSE /\ locals' = locals
                  /\ result' = Raise("KeyError")
    /\ pc' = "_find"
    /\ UNCHANGED <<nodes, threshold, edges, query, k, world>>

(* _find(parent, a) has compressed the path of a when _find(parent, b)     *)
(* raises                                                                  *)
Union ==
    /\ pc # "start"
    /\ \E a, b \in Ids \cup {UnknownId} :
          /\ args' = <<a, b>>
          /\ IF a \notin DOMAIN locals.parent
             THEN /\ locals' = locals
                  /\ result' = Raise("KeyError")
             ELSE IF b \notin DOMAIN locals.parent
             THEN /\ locals' = [parent |-> _find(locals.parent, a).parent]
                  /\ result' = Raise("KeyError")
             ELSE /\ locals' = [parent |-> _union(locals.parent, a, b)]
                  /\ result' = Return(<<>>)
    /\ pc' = "_union"
    /\ UNCHANGED <<nodes, threshold, edges, query, k, world>>

InitUnionFind ==
    /\ nodes \in UNION {NodeListsOver(idseq, {<<1, 0>>}, {_UNKNOWN_ERA}) :
                           idseq \in PoolPrefixes}
    /\ InitArgs

NextUnionFind == MakeUnionFind \/ Find \/ Union

SpecUnionFind == InitUnionFind /\ [][NextUnionFind]_vars

----------------------------------------------------------------------------

(* SpecUpload: one POST /upload, on a server that has served nothing yet   *)
(* or one upload already, whatever the request holds and wherever Firebase *)
(* fails                                                                   *)

Request(photos, voice_recording, captions, person_name) ==
    [photos |-> photos, voice_recording |-> voice_recording,
     captions |-> captions, person_name |-> person_name]

UploadEnvironment(raises_at, raises_in, firestore_raises, elevenlabs_api_key) ==
    [raises_at |-> raises_at, raises_in |-> raises_in,
     firestore_raises |-> firestore_raises,
     elevenlabs_api_key |-> elevenlabs_api_key]

UploadEnvironments ==
    {UploadEnvironment(0, "none", FALSE, TRUE),
     UploadEnvironment(0, "none", FALSE, FALSE),
     UploadEnvironment(0, "none", TRUE, TRUE),
     UploadEnvironment(1, "upload_from_file", FALSE, TRUE),
     UploadEnvironment(2, "upload_from_file", FALSE, TRUE),
     UploadEnvironment(2, "generate_signed_url", FALSE, TRUE)}

GoodPhoto == FileStorage(<<"a", ".", "j", "p", "g">>, <<"i", "m", "a", "g", "e", "/", "j", "p", "e", "g">>, 1)

(* Photos that pass: an upper-case extension, two dots, no declared type,  *)
(* a type with a parameter and in upper case, the largest size             *)
PassingPhotos ==
    {GoodPhoto,
     FileStorage(<<"a", ".", "J", "P", "G">>, <<"i", "m", "a", "g", "e", "/", "j", "p", "e", "g">>, 1),
     FileStorage(<<"a", ".", "t", "a", "r", ".", "p", "n", "g">>, <<"i", "m", "a", "g", "e", "/", "p", "n", "g">>, 1),
     FileStorage(<<"a", ".", "j", "p", "g">>, <<>>, 1),
     FileStorage(<<"a", ".", "j", "p", "g">>, <<"I", "M", "A", "G", "E", "/", "J", "P", "E", "G", ";", " ", "q", "=", "1">>, 1),
     FileStorage(<<"a", ".", "j", "p", "g">>, <<"i", "m", "a", "g", "e", "/", "j", "p", "e", "g">>, _MAX_FILE_SIZE_BYTES)}

(* Photos that do not: extension, no extension, type, empty, oversized *)
FailingPhotos ==
    {FileStorage(<<"a", ".", "g", "i", "f">>, <<"i", "m", "a", "g", "e", "/", "g", "i", "f">>, 1),
     FileStorage(<<"a">>, <<"i", "m", "a", "g", "e", "/", "j", "p", "e", "g">>, 1),
     FileStorage(<<"a", ".", "j", "p", "g">>, <<"i", "m", "a", "g", "e", "/", "g", "i", "f">>, 1),
     FileStorage(<<"a", ".", "j", "p", "g">>, <<"i", "m", "a", "g", "e", "/", "j", "p", "e", "g">>, 0),
     FileStorage(<<"a", ".", "j", "p", "g">>, <<"i", "m", "a", "g", "e", "/", "j", "p", "e", "g">>, _MAX_FILE_SIZE_BYTES + 1)}

GoodVoice == FileStorage(<<"v", ".", "w", "a", "v">>, <<"a", "u", "d", "i", "o", "/", "w", "a", "v">>, 1)

PassingVoices ==
    {GoodVoice,
     FileStorage(<<"v", ".", "M", "P", "3">>, <<"a", "u", "d", "i", "o", "/", "m", "p", "e", "g">>, 1),
     FileStorage(<<"v", ".", "w", "a", "v">>, <<>>, 1),
     FileStorage(<<"v", ".", "w", "a", "v">>, <<"a", "u", "d", "i", "o", "/", "w", "a", "v">>, _MAX_FILE_SIZE_BYTES)}

(* The field is missing, or it holds a part without a file name; the       *)
(* others fail on their extension, type or size                            *)
FailingVoices ==
    {None,
     FileStorage(<<>>, <<"a", "u", "d", "i", "o", "/", "w", "a", "v">>, 1),
     FileStorage(<<"v", ".", "a", "a", "c">>, <<"a", "u", "d", "i", "o", "/", "a", "a", "c">>, 1),
     FileStorage(<<"v", ".", "w", "a", "v">>, <<"a", "u", "d", "i", "o", "/", "a", "a", "c">>, 1),
     FileStorage(<<"v", ".", "w", "a", "v">>, <<"a", "u", "d", "i", "o", "/", "w", "a", "v">>, 0),
     FileStorage(<<"v", ".", "w", "a", "v">>, <<"a", "u", "d", "i", "o", "/", "w", "a", "v">>, _MAX_FILE_SIZE_BYTES + 1)}

GoodName == <<"M", "a", "r", "g", "a", "r", "e", "t">>

(* n times the character c *)
Times(c, n) == [p \in 1..n |-> c]

PersonNames ==
    {<<>>, <<" ">>, GoodName,
     Times("M", _MAX_PERSON_NAME_LEN),
     <<" ">> \o Times("M", _MAX_PERSON_NAME_LEN) \o <<" ">>,
     Times("M", _MAX_PERSON_NAME_LEN + 1)}

CaptionTexts == <<<<"b", "e", "a", "c", "h", " ">>, <<"g", "a", "r", "d", "e", "n">>>>

(* n captions *)
CaptionsOf(n) == [i \in 1..n |-> CaptionTexts[(i % 2) + 1]]

(* n photos, the one at place p being photo *)
PhotosWith(n, p, photo) == [i \in 1..n |-> IF i = p THEN photo ELSE GoodPhoto]

PhotoCounts == {0, 1, 2, _MAX_PHOTOS, _MAX_PHOTOS + 1}

Requests ==
    {Request(PhotosWith(n, 1, GoodPhoto), GoodVoice, CaptionsOf(n), GoodName) :
        n \in PhotoCounts}
    \cup {Request(PhotosWith(2, p, photo), GoodVoice, CaptionsOf(2), GoodName) :
            p \in 1..2, photo \in PassingPhotos \cup FailingPhotos}
    \cup {Request(PhotosWith(2, 1, GoodPhoto), voice, CaptionsOf(2), GoodName) :
            voice \in PassingVoices \cup FailingVoices}
    \cup {Request(PhotosWith(2, 1, GoodPhoto), GoodVoice, CaptionsOf(c), GoodName) :
            c \in {1, 3}}
    \cup {Request(PhotosWith(1, 1, GoodPhoto), GoodVoice, CaptionsOf(1), person_name) :
            person_name \in PersonNames}

(* The upload served before, if any *)
EarlierUpload ==
    handle_upload(Request(<<GoodPhoto>>, GoodVoice, CaptionsOf(1), GoodName),
                  UploadEnvironment(0, "none", FALSE, TRUE), 0)

(* locals holds the number of UUIDs the process has drawn *)
InitUpload ==
    /\ nodes = <<>>
    /\ pc = "start"
    /\ threshold = Zero
    /\ edges = <<>>
    /\ query = <<>>
    /\ k = 0
    /\ result = NoResult
    /\ args = <<>>
    /\ in_flight = {}
    /\ elevenlabs = <<>>
    /\ globals = <<>>
    /\ \/ /\ locals = [issued |-> 0]
          /\ storage = <<>>
          /\ firestore = <<>>
          /\ background = <<>>
       \/ /\ locals = [issued |-> EarlierUpload.issued]
          /\ storage = EarlierUpload.storage
          /\ firestore = EarlierUpload.firestore
          /\ background = EarlierUpload.background

HandleUpload ==
    /\ pc = "start"
    /\ \E request \in Requests, env \in UploadEnvironments :
          LET handled == handle_upload(request, env, locals.issued)
          IN  /\ args' = <<request, env>>
              /\ result' = Return(handled.response)
              /\ storage' = storage \o handled.storage
              /\ firestore' = firestore \o handled.firestore
              /\ background' = background \o handled.background
              /\ locals' = [issued |-> handled.issued]
    /\ pc' = "handle_upload"
    /\ UNCHANGED <<nodes, threshold, edges, query, k, in_flight, elevenlabs,
                   globals>>

NextUpload == HandleUpload

SpecUpload == InitUpload /\ [][NextUpload]_vars

----------------------------------------------------------------------------

(* SpecPostRetry: one call of _post_with_retry by each of its callers,     *)
(* whatever ElevenLabs answers.  SpecPostRetryLive adds that a request is  *)
(* answered or times out (the clients are made with a timeout) and that    *)
(* asyncio.sleep returns.                                                  *)

Endpoints ==
    {[url |-> "/voices/add", files |-> "stream"],
     [url |-> "/convai/knowledge-base/document", files |-> "bytes"],
     [url |-> "/convai/agents/create", files |-> "none"]}

StatusCodes == {200, 201, 400, 401, 422, 429, 500}

(* merged_headers = {**_default_headers(), ...}: os.environ[...] raises    *)
(* KeyError without ELEVENLABS_API_KEY                                     *)
PostWithRetry ==
    /\ pc = "start"
    /\ \E endpoint \in Endpoints, api_key \in BOOLEAN :
          /\ args' = [url |-> endpoint.url, files |-> endpoint.files,
                      api_key |-> api_key]
          /\ IF api_key
             THEN /\ pc' = "post"
                  /\ result' = result
                  /\ locals' = [attempt |-> 0, stream_at |-> 0,
                                responses |-> <<>>, slept |-> <<>>]
             ELSE /\ pc' = "raised"
                  /\ result' = Raise("KeyError")
                  /\ locals' = locals
    /\ UNCHANGED <<nodes, threshold, edges, query, k, world>>

(* response = await client.post(...): the request goes out, the stream is  *)
(* read to its end                                                         *)
SendPost ==
    /\ pc = "post"
    /\ elevenlabs' = Append(elevenlabs,
                            [url |-> args.url,
                             body |-> BodySent(args.files, locals.stream_at)])
    /\ locals' = [locals EXCEPT !.stream_at = PayloadLen]
    /\ pc' = "awaiting_response"
    /\ UNCHANGED <<nodes, threshold, edges, query, k, result, args, in_flight,
                   firestore, storage, background, globals>>

(* The response arrives: lines 141-152 *)
ReceiveResponse ==
    /\ pc = "awaiting_response"
    /\ \E status_code \in StatusCodes :
          /\ locals' = [locals EXCEPT !.responses = Append(@, status_code)]
          /\ IF StopsRetrying(status_code, locals.attempt)
             THEN /\ result' = raise_for_status(status_code)
                  /\ pc' = IF Raised(raise_for_status(status_code))
                           THEN "raised" ELSE "returned"
             ELSE /\ result' = result
                  /\ pc' = "sleeping"
    /\ UNCHANGED <<nodes, threshold, edges, query, k, args, world>>

(* No response arrives: client.post raises and the exception leaves the    *)
(* function                                                                *)
RequestFails ==
    /\ pc = "awaiting_response"
    /\ result' = Raise("TimeoutException")
    /\ pc' = "raised"
    /\ UNCHANGED <<nodes, threshold, edges, query, k, args, locals, world>>

(* await asyncio.sleep(wait) returns; attempt += 1; the stream is rewound: *)
(* lines 152-163                                                           *)
SleepReturns ==
    /\ pc = "sleeping"
    /\ locals' = [locals EXCEPT !.slept = Append(@, BackoffWait(locals.attempt)),
                                !.attempt = @ + 1,
                                !.stream_at = IF args.files = "stream" THEN 0 ELSE @]
    /\ pc' = "post"
    /\ UNCHANGED <<nodes, threshold, edges, query, k, result, args, world>>

InitPostRetry ==
    /\ nodes = <<>>
    /\ InitArgs

NextPostRetry ==
    \/ PostWithRetry
    \/ SendPost
    \/ ReceiveResponse
    \/ RequestFails
    \/ SleepReturns

SpecPostRetry == InitPostRetry /\ [][NextPostRetry]_vars

SpecPostRetryLive == SpecPostRetry /\ WF_vars(NextPostRetry)

----------------------------------------------------------------------------

(* SpecLocalModel: _get_local_model called by several threads, each once,  *)
(* with sentence-transformers installed or not.  A thread can be switched  *)
(* out between any two bytecodes, so the test of line 64, the constructor  *)
(* call and the store of line 69, and the load of line 76 are steps of     *)
(* their own.  pc, locals and result are kept per thread.                  *)

Threads == 1..MaxThreads

_LOCAL_MODEL_NAME == "all-MiniLM-L6-v2"

(* SentenceTransformer(_LOCAL_MODEL_NAME), as constructed by thread t *)
SentenceTransformer(model_name, t) == [model |-> model_name, constructed_by |-> t]

InitLocalModel ==
    /\ nodes = <<>>
    /\ threshold = Zero
    /\ edges = <<>>
    /\ query = <<>>
    /\ k = 0
    /\ args \in [installed : BOOLEAN]
    /\ pc = [t \in Threads |-> "start"]
    /\ locals = [t \in Threads |-> None]
    /\ result = [t \in Threads |-> NoResult]
    /\ in_flight = {}
    /\ firestore = <<>>
    /\ storage = <<>>
    /\ background = <<>>
    /\ elevenlabs = <<>>
    /\ globals = [_local_model |-> None]

(* if _local_model is None *)
TestLocalModel(t) ==
    /\ pc[t] = "start"
    /\ pc' = [pc EXCEPT ![t] = IF globals._local_model = None
                               THEN "import" ELSE "return"]
    /\ UNCHANGED <<nodes, threshold, edges, query, k, result, args, locals, world>>

(* from sentence_transformers import SentenceTransformer, and the          *)
(* RuntimeError raised from the ImportError                                *)
ImportSentenceTransformers(t) ==
    /\ pc[t] = "import"
    /\ IF args.installed
       THEN /\ pc' = [pc EXCEPT ![t] = "construct"]
            /\ result' = result
       ELSE /\ pc' = [pc EXCEPT ![t] = "raised"]
            /\ result' = [result EXCEPT ![t] = Raise("RuntimeError")]
    /\ UNCHANGED <<nodes, threshold, edges, query, k, args, locals, world>>

(* The constructor runs: the right-hand side of line 69 *)
ConstructLocalModel(t) ==
    /\ pc[t] = "construct"
    /\ locals' = [locals EXCEPT ![t] = SentenceTransformer(_LOCAL_MODEL_NAME, t)]
    /\ pc' = [pc EXCEPT ![t] = "store"]
    /\ UNCHANGED <<nodes, threshold, edges, query, k, result, args, world>>

(* _local_model = ...: the store of line 69 *)
StoreLocalModel(t) ==
    /\ pc[t] = "store"
    /\ globals' = [globals EXCEPT !._local_model = locals[t]]
    /\ pc' = [pc EXCEPT ![t] = "return"]
    /\ UNCHANGED <<nodes, threshold, edges, query, k, result, args, locals,
                   in_flight, firestore, storage, background, elevenlabs>>

(* return _local_model: the global is read again *)
ReturnLocalModel(t) ==
    /\ pc[t] = "return"
    /\ result' = [result EXCEPT ![t] = Return(globals._local_model)]
    /\ pc' = [pc EXCEPT ![t] = "returned"]
    /\ UNCHANGED <<nodes, threshold, edges, query, k, args, locals, world>>

NextLocalModel ==
    \E t \in Threads :
        \/ TestLocalModel(t)
        \/ ImportSentenceTransformers(t)
        \/ ConstructLocalModel(t)
        \/ StoreLocalModel(t)
        \/ ReturnLocalModel(t)

SpecLocalModel == InitLocalModel /\ [][NextLocalModel]_vars

----------------------------------------------------------------------------

----------------------------------------------------------------------------
(* SpecBackend: one memory after its upload was answered with 200, and the *)
(* threads that work on it: the upload's embedding job (_run_embeddings),  *)
(* the ElevenLabs provisioning thread when ELEVENLABS_API_KEY is set, and  *)
(* the batch job of POST /api/embed (_run_batch), of which one is started. *)
(* pc and locals are functions over the threads; a thread's step is one   *)
(* await or one Firestore call.                                            *)
(* Firestore calls made by the jobs succeed; the requests to the AMD       *)
(* endpoint, the photo downloads and the ElevenLabs calls may fail.        *)

KnownMemory == uuid4(0)

UnknownMemory == <<"uuid", 0>>

(* How a job's request to the AMD endpoint may end: an embedding, or a     *)
(* body that raises ValueError                                             *)
JobRemoteOutcomes == {"ok", "malformed_body"}

(* The ids ElevenLabs gives out: one more than it has handed out so far *)
ElevenLabsId(resource, issued) == Str(<<resource, Len(issued) + 1>>)

(* What the request of a successful upload of n photos leaves behind *)
Uploaded(n, elevenlabs_api_key) ==
    handle_upload(Request(PhotosWith(n, 1, GoodPhoto), GoodVoice, CaptionsOf(n),
                          GoodName),
                  UploadEnvironment(0, "none", FALSE, elevenlabs_api_key), 0)

(* The locals of _run_embeddings and of _run_batch when they are entered *)
EmbeddingJob(memory_id, photos) ==
    [memory_id |-> memory_id, photos |-> photos, i |-> 1, failed |-> 0,
     image_bytes |-> <<>>, embedding |-> <<>>, log |-> <<>>]

(* The locals of _run_elevenlabs_provisioning when it is entered *)
ProvisioningRun(memory_id, person_name) ==
    [memory_id |-> memory_id, person_name |-> person_name,
     voice_id |-> None, kb_content |-> <<>>, kb_id |-> None,
     agent_id |-> None, log |-> <<>>]

NotStarted == [memory_id |-> <<>>, log |-> <<>>]

(* The state an upload of n photos that was answered with 200 leaves *)
AfterUpload(n, elevenlabs_api_key) ==
    /\ nodes = <<>>
    /\ threshold = Zero
    /\ edges = <<>>
    /\ query = <<>>
    /\ k = 0
    /\ in_flight = {}
    /\ elevenlabs = <<>>
    /\ globals = <<>>
    /\ args = [photos |-> n, elevenlabs_api_key |-> elevenlabs_api_key]
    /\ result = Return(Uploaded(n, elevenlabs_api_key).response)
    /\ storage = Uploaded(n, elevenlabs_api_key).storage
    /\ firestore = Uploaded(n, elevenlabs_api_key).firestore
    /\ background = Uploaded(n, elevenlabs_api_key).background

(* The threads of the upload as they start, and the batch job *)
StartedBy(t, n, elevenlabs_api_key) ==
    CASE t = "embed" ->
            EmbeddingJob(KnownMemory,
                         PhotoDocs(PhotosWith(n, 1, GoodPhoto), CaptionsOf(n), 1))
      [] t = "el-provision" /\ elevenlabs_api_key ->
            ProvisioningRun(KnownMemory, GoodName)
      [] OTHER -> NotStarted

InitBackend ==
    \E n \in 1..2, elevenlabs_api_key \in BOOLEAN :
       /\ AfterUpload(n, elevenlabs_api_key)
       /\ pc = [t \in {"embed", "el-provision", "embed-batch"} |->
                  CASE t = "embed" -> "for"
                    [] t = "el-provision" /\ elevenlabs_api_key -> "start"
                    [] OTHER -> "not_started"]
       /\ locals = [t \in {"embed", "el-provision", "embed-batch"} |->
                      StartedBy(t, n, elevenlabs_api_key)]

(* A thread's step: where it goes on and what its locals become *)
Goes(t, to, l) ==
    /\ pc' = [pc EXCEPT ![t] = to]
    /\ locals' = [locals EXCEPT ![t] = l]

(* The end of one iteration of a job's loop over its photos *)
NextPhoto(t, l, event, after) ==
    Goes(t, IF l.i < Len(l.photos) THEN "for" ELSE after,
         [l EXCEPT !.i = @ + 1,
                   !.log = Append(@, [photo |-> l.i, event |-> event])])

(* The except clause of a job's loop: failed += 1 *)
PhotoFailed(t, l, after) ==
    NextPhoto(t, [l EXCEPT !.failed = @ + 1], "failed", after)

(* _run_embeddings, lines 510-515: the next photo and                      *)
(* await generate_embedding(b"", caption)                                  *)
RunEmbeddingsGenerate(t) ==
    /\ pc[t] = "for"
    /\ LET l == locals[t]
           photo == l.photos[l.i]
       IN  \E remote \in JobRemoteOutcomes :
              LET r == amd_service_generate_embedding(<<>>, AsText(photo.caption),
                                                     remote)
              IN  IF Raised(r) THEN PhotoFailed(t, l, "complete")
                  ELSE Goes(t, "update_photo_embedding",
                            [l EXCEPT !.embedding = r.value])
    /\ UNCHANGED <<nodes, threshold, edges, query, k, result, args, world>>

(* _run_embeddings, lines 517-521 *)
RunEmbeddingsUpdate(t) ==
    /\ pc[t] = "update_photo_embedding"
    /\ LET l == locals[t]
       IN  /\ firestore' = update_photo_embedding(firestore, l.memory_id,
                                                  l.photos[l.i].photo_id,
                                                  l.embedding)
           /\ NextPhoto(t, l, "embedding", "complete")
    /\ UNCHANGED <<nodes, threshold, edges, query, k, result, args, in_flight,
                   storage, background, elevenlabs, globals>>

(* _run_embeddings, lines 535-541 *)
RunEmbeddingsComplete(t) ==
    /\ pc[t] = "complete"
    /\ firestore' = _run_embeddings_end(firestore, locals[t].memory_id,
                                        locals[t].failed)
    /\ Goes(t, "done", locals[t])
    /\ UNCHANGED <<nodes, threshold, edges, query, k, result, args, in_flight,
                   storage, background, elevenlabs, globals>>

(* trigger_embedding, POST /api/embed.  A request that would start a       *)
(* second batch job is not made.                                           *)
TriggerEmbedding ==
    /\ \E body \in {[memory_id |-> Str(KnownMemory)],
                    [memory_id |-> Str(UnknownMemory)],
                    [memory_id |-> Str(<<" ">>)],
                    [memory |-> Str(KnownMemory)]},
          lookup_raises \in BOOLEAN :
          LET handled == trigger_embedding(body, firestore, lookup_raises)
          IN  /\ lookup_raises => body = [memory_id |-> Str(KnownMemory)]
              /\ handled.background # <<>> => pc["embed-batch"] = "not_started"
              /\ args' = [body |-> body, lookup_raises |-> lookup_raises]
              /\ result' = Return(handled.response)
              /\ background' = background \o handled.background
              /\ IF handled.background = <<>>
                 THEN UNCHANGED <<pc, locals>>
                 ELSE Goes("embed-batch", "for",
                           EmbeddingJob(handled.background[1].memory_id,
                                        handled.background[1].photos))
    /\ UNCHANGED <<nodes, threshold, edges, query, k, in_flight, firestore,
                   storage, elevenlabs, globals>>

(* _run_batch, lines 152-165: the next photo, skipped when the list it was *)
(* given holds an embedding for it, else downloaded                        *)
RunBatchGet(t) ==
    /\ pc[t] = "for"
    /\ LET l == locals[t]
           photo == l.photos[l.i]
       IN  IF photo.embedding # None
           THEN NextPhoto(t, l, "skipped", "final_status")
           ELSE \E status_code \in {200, 404} :
                   IF Raised(raise_for_status(status_code))
                   THEN PhotoFailed(t, l, "final_status")
                   ELSE Goes(t, "generate_embedding",
                             [l EXCEPT !.image_bytes = <<1>>])
    /\ UNCHANGED <<nodes, threshold, edges, query, k, result, args, world>>

(* _run_batch, line 168 *)
RunBatchGenerate(t) ==
    /\ pc[t] = "generate_embedding"
    /\ LET l == locals[t]
           photo == l.photos[l.i]
       IN  \E remote \in JobRemoteOutcomes :
              LET r == amd_service_generate_embedding(l.image_bytes,
                                                     AsText(photo.caption), remote)
              IN  IF Raised(r) THEN PhotoFailed(t, l, "final_status")
                  ELSE Goes(t, "update_photo_embedding",
                            [l EXCEPT !.embedding = r.value])
    /\ UNCHANGED <<nodes, threshold, edges, query, k, result, args, world>>

(* _run_batch, lines 170-174 *)
RunBatchUpdate(t) ==
    /\ pc[t] = "update_photo_embedding"
    /\ LET l == locals[t]
       IN  /\ firestore' = update_photo_embedding(firestore, l.memory_id,
                                                  l.photos[l.i].photo_id,
                                                  l.embedding)
           /\ NextPhoto(t, l, "embedding", "final_status")
    /\ UNCHANGED <<nodes, threshold, edges, query, k, result, args, in_flight,
                   storage, background, elevenlabs, globals>>

(* _run_batch, lines 191-193 *)
RunBatchFinish(t) ==
    /\ pc[t] = "final_status"
    /\ LET l == locals[t]
       IN  /\ firestore' = update_memory_status(firestore, l.memory_id,
                                                final_status(l.failed))
           /\ Goes(t, "done",
                   [l EXCEPT !.log = Append(@, [photo |-> 0,
                                                event |-> final_status(l.failed)])])
    /\ UNCHANGED <<nodes, threshold, edges, query, k, result, args, in_flight,
                   storage, background, elevenlabs, globals>>

(* A step of the provisioning thread that calls nothing outside *)
Logged(l, event) == [l EXCEPT !.log = Append(@, event)]

(* _run_elevenlabs_provisioning, lines 405-412: the idempotency guard *)
ProvisionGuard(t) ==
    /\ pc[t] = "start"
    /\ LET l == locals[t]
           existing == get_memory_from_firestore(firestore, l.memory_id)
       IN  IF existing # None /\ Truthy(get(existing, "agent_id"))
           THEN Goes(t, "done", Logged(l, "skipped"))
           ELSE Goes(t, "create_voice_clone", l)
    /\ UNCHANGED <<nodes, threshold, edges, query, k, result, args, world>>

(* A call of elevenlabs_service that creates a resource: it returns the    *)
(* new id, or raises and the worker's except clause is entered             *)
ElevenLabsCall(t, at, resource, field, to) ==
    /\ pc[t] = at
    /\ \E created \in BOOLEAN :
          IF created
          THEN /\ elevenlabs' = Append(elevenlabs,
                                       [resource |-> resource,
                                        id |-> ElevenLabsId(resource, elevenlabs),
                                        memory_id |-> locals[t].memory_id])
               /\ Goes(t, to, Logged([locals[t] EXCEPT ![field] =
                                          ElevenLabsId(resource, elevenlabs)],
                                     resource))
          ELSE /\ elevenlabs' = elevenlabs
               /\ Goes(t, "except", locals[t])
    /\ UNCHANGED <<nodes, threshold, edges, query, k, result, args, in_flight,
                   firestore, storage, background, globals>>

(* Line 416 *)
CreateVoiceClone(t) ==
    ElevenLabsCall(t, "create_voice_clone", "voice", "voice_id",
                   "update_memory_voice_id")

(* Line 417 *)
UpdateMemoryVoiceId(t) ==
    /\ pc[t] = "update_memory_voice_id"
    /\ firestore' = update_memory_voice_id(firestore, locals[t].memory_id,
                                           locals[t].voice_id)
    /\ Goes(t, "build_from_firestore", Logged(locals[t], "update_memory_voice_id"))
    /\ UNCHANGED <<nodes, threshold, edges, query, k, result, args, in_flight,
                   storage, background, elevenlabs, globals>>

(* Line 422: the knowledge base is built from the photo documents as they  *)
(* are read now; of its text the model keeps the captions                  *)
BuildFromFirestore(t) ==
    /\ pc[t] = "build_from_firestore"
    /\ LET photos == get_all_photos_for_memory(firestore, locals[t].memory_id)
       IN  Goes(t, "upload_knowledge_base_document",
                [locals[t] EXCEPT !.kb_content =
                    [i \in 1..Len(photos) |-> photos[i].caption]])
    /\ UNCHANGED <<nodes, threshold, edges, query, k, result, args, world>>

(* Lines 426-428 *)
UploadKnowledgeBaseDocument(t) ==
    ElevenLabsCall(t, "upload_knowledge_base_document", "kb", "kb_id",
                   "update_memory_kb_id")

(* Line 429 *)
UpdateMemoryKbId(t) ==
    /\ pc[t] = "update_memory_kb_id"
    /\ firestore' = update_memory_kb_id(firestore, locals[t].memory_id,
                                        locals[t].kb_id)
    /\ Goes(t, "create_conversational_agent",
            Logged(locals[t], "update_memory_kb_id"))
    /\ UNCHANGED <<nodes, threshold, edges, query, k, result, args, in_flight,
                   storage, background, elevenlabs, globals>>

(* Lines 434-436 *)
CreateConversationalAgent(t) ==
    ElevenLabsCall(t, "create_conversational_agent", "agent", "agent_id",
                   "update_memory_agent_id")

(* Line 437 *)
UpdateMemoryAgentId(t) ==
    /\ pc[t] = "update_memory_agent_id"
    /\ firestore' = update_memory_agent_id(firestore, locals[t].memory_id,
                                           locals[t].agent_id)
    /\ Goes(t, "update_memory_status", Logged(locals[t], "update_memory_agent_id"))
    /\ UNCHANGED <<nodes, threshold, edges, query, k, result, args, in_flight,
                   storage, background, elevenlabs, globals>>

(* Line 444 *)
UpdateMemoryStatusReady(t) ==
    /\ pc[t] = "update_memory_status"
    /\ firestore' = update_memory_status(firestore, locals[t].memory_id, "ready")
    /\ Goes(t, "done", Logged(locals[t], "ready"))
    /\ UNCHANGED <<nodes, threshold, edges, query, k, result, args, in_flight,
                   storage, background, elevenlabs, globals>>

(* The except clause of the worker of _queue_elevenlabs_provisioning,      *)
(* lines 363-370                                                           *)
ProvisioningFailed(t) ==
    /\ pc[t] = "except"
    /\ firestore' = update_memory_status(firestore, locals[t].memory_id, "error")
    /\ Goes(t, "done", Logged(locals[t], "error"))
    /\ UNCHANGED <<nodes, threshold, edges, query, k, result, args, in_flight,
                   storage, background, elevenlabs, globals>>

(* The steps of one run of the provisioning pipeline *)
Provisioning(t) ==
    \/ ProvisionGuard(t)
    \/ CreateVoiceClone(t)
    \/ UpdateMemoryVoiceId(t)
    \/ BuildFromFirestore(t)
    \/ UploadKnowledgeBaseDocument(t)
    \/ UpdateMemoryKbId(t)
    \/ CreateConversationalAgent(t)
    \/ UpdateMemoryAgentId(t)
    \/ UpdateMemoryStatusReady(t)
    \/ ProvisioningFailed(t)

(* retry_agent, POST /api/retry-agent/<memory_id>.  No state of the model  *)
(* has the handler start its worker, which therefore has no action.        *)
RetryAgent ==
    /\ \E memory_id \in {KnownMemory, UnknownMemory} :
          LET handled == retry_agent(memory_id, firestore)
          IN  /\ args' = [memory_id |-> memory_id]
              /\ result' = Return(handled.response)
              /\ background' = background \o handled.background
    /\ UNCHANGED <<nodes, threshold, edges, query, k, pc, locals, in_flight,
                   firestore, storage, elevenlabs, globals>>

(* The steps of the background threads *)
BackendThreads ==
    \/ RunEmbeddingsGenerate("embed")
    \/ RunEmbeddingsUpdate("embed")
    \/ RunEmbeddingsComplete("embed")
    \/ RunBatchGet("embed-batch")
    \/ RunBatchGenerate("embed-batch")
    \/ RunBatchUpdate("embed-batch")
    \/ RunBatchFinish("embed-batch")
    \/ Provisioning("el-provision")

NextBackend ==
    \/ BackendThreads
    \/ TriggerEmbedding

SpecBackend == InitBackend /\ [][NextBackend]_vars

(* Every thread that can take a step is given the processor again: the     *)
(* threads are operating-system threads, none waits for another            *)
SpecBackendLive == SpecBackend /\ WF_vars(BackendThreads)

----------------------------------------------------------------------------
(* SpecRetryAgent: POST /api/retry-agent/<memory_id>, served at any time   *)
(* while the provisioning thread of the upload works on the memory         *)

InitRetryAgent ==
    \E n \in 1..2, elevenlabs_api_key \in BOOLEAN :
       /\ AfterUpload(n, elevenlabs_api_key)
       /\ pc = [t \in {"el-provision"} |->
                  IF elevenlabs_api_key THEN "start" ELSE "not_started"]
       /\ locals = [t \in {"el-provision"} |-> StartedBy(t, n, elevenlabs_api_key)]

NextRetryAgent ==
    \/ Provisioning("el-provision")
    \/ RetryAgent

SpecRetryAgent == InitRetryAgent /\ [][NextRetryAgent]_vars

----------------------------------------------------------------------------
(* SpecProvisioning: _run_elevenlabs_provisioning run twice for one        *)
(* memory, the runs overlapping or one after the other                     *)

InitProvisioning ==
    \E n \in 1..2 :
       /\ AfterUpload(n, TRUE)
       /\ pc = [t \in {"el-provision", "el-provision-again"} |-> "start"]
       /\ locals = [t \in {"el-provision", "el-provision-again"} |->
                      ProvisioningRun(KnownMemory, GoodName)]

NextProvisioning ==
    \/ Provisioning("el-provision")
    \/ Provisioning("el-provision-again")

SpecProvisioning == InitProvisioning /\ [][NextProvisioning]_vars

(* What the properties are stated with *)

NodeIds == {nodes[i].id : i \in 1..Len(nodes)}

UniqueIds == \A i, j \in 1..Len(nodes) : nodes[i].id = nodes[j].id => i = j

(* The position in nodes of the node with this id *)
Pos(id) == CHOOSE i \in 1..Len(nodes) : nodes[i].id = id

GraphBuilt == pc = "build_semantic_graph" /\ ~Raised(result)

ClustersFound == pc = "find_memory_clusters" /\ ~Raised(result)

HitsReturned == pc = "retrieve_top_k" /\ ~Raised(result)

(* The similarity of the nodes at positions i and j, as a returned float *)
Sim(i, j) == cosine_similarity(nodes[i].embedding, nodes[j].embedding).value

(* The score of a node against the query of the state *)
Score(n) == cosine_similarity(query, n.embedding).value

PairOf(e) == <<e.source_id, e.target_id>>

----------------------------------------------------------------------------
(* C1: build_semantic_graph on nodes with unique ids returns no edge from  *)
(* a node to itself and no unordered pair of ids twice, neither as (a, b)  *)
(* twice nor as (a, b) and (b, a).                                         *)
C1_NoSelfEdgeNoDuplicatePair ==
    (GraphBuilt /\ UniqueIds) =>
        LET es == result.value
        IN /\ \A i \in 1..Len(es) : es[i].source_id # es[i].target_id
           /\ \A i, j \in 1..Len(es) :
                 i # j => {es[i].source_id, es[i].target_id}
                              # {es[j].source_id, es[j].target_id}

(* A graph of three edges over three nodes was returned *)
C1_Witness == GraphBuilt /\ UniqueIds /\ Len(nodes) = 3 /\ Len(result.value) = 3

----------------------------------------------------------------------------
(* Clusters as returned: the entries [key |-> label, value |-> members] *)

Clusters == result.value

Members(c) == Clusters[c].value

(* The places (cluster, position in its member list) where an id stands *)
PlacesOf(id) ==
    {<<c, m>> \in (1..Len(Clusters)) \X (1..MaxNodes + 1) :
        m <= Len(Members(c)) /\ Members(c)[m] = id}

SameCluster(a, b) ==
    \E c \in 1..Len(Clusters) : a \in Range(Members(c)) /\ b \in Range(Members(c))

(* An edge of the edges argument joins a and b, in either direction *)
Joined(a, b) ==
    \E i \in 1..Len(edges) :
        \/ edges[i].source_id = a /\ edges[i].target_id = b
        \/ edges[i].source_id = b /\ edges[i].target_id = a

(* The node ids joined to one of S by a path of edges between node ids *)
RECURSIVE ReachableFrom(_)
ReachableFrom(S) ==
    LET further == S \cup {b \in NodeIds : \E a \in S : Joined(a, b)}
    IN IF further = S THEN S ELSE ReachableFrom(further)

(* The edges argument without the edges that name an id no node carries *)
KnownEdges == SelectSeq(edges, LAMBDA e : e.source_id \in NodeIds /\ e.target_id \in NodeIds)

(* C2: for nodes with unique ids and any edge list, also one that names    *)
(* unknown ids, every node id stands in exactly one returned member list,  *)
(* exactly once, and the member lists hold nothing but node ids.           *)
C2_ClustersPartitionNodeIds ==
    (ClustersFound /\ UniqueIds) =>
        /\ \A id \in NodeIds : Cardinality(PlacesOf(id)) = 1
        /\ \A c \in 1..Len(Clusters) : Range(Members(c)) \subseteq NodeIds

(* Three nodes fell into two clusters, with an edge to an unknown id *)
C2_Witness ==
    /\ ClustersFound /\ UniqueIds
    /\ Len(nodes) = 3
    /\ Len(Clusters) = 2
    /\ \E i \in 1..Len(edges) : edges[i].target_id = UnknownId

(* C3: two node ids are in the same cluster exactly if a path of edges     *)
(* between node ids joins them, whatever the direction and the order of    *)
(* the edges; a node no such edge joins to another is alone in its cluster.*)
C3_SameClusterIffConnected ==
    (ClustersFound /\ UniqueIds) =>
        /\ \A a, b \in NodeIds : SameCluster(a, b) <=> b \in ReachableFrom({a})
        /\ \A a \in NodeIds :
              (\A b \in NodeIds \ {a} : ~Joined(a, b)) =>
                  \E c \in 1..Len(Clusters) : Members(c) = <<a>>

(* Two edges that point at their common node from both sides made one      *)
(* cluster of three                                                        *)
C3_Witness ==
    /\ ClustersFound /\ UniqueIds
    /\ Len(nodes) = 3
    /\ Len(edges) = 2
    /\ edges[1].target_id = edges[2].target_id
    /\ edges[1].source_id # edges[2].source_id
    /\ Len(Clusters) = 1

(* C4: the number of hits retrieve_top_k returns is min(k, len(nodes)),    *)
(* for every integer k.                                                    *)
C4_HitCountIsMin ==
    HitsReturned => Len(result.value) = Min(k, Len(nodes))

(* C4 as amended: with k >= 0 the number of hits is min(k, len(nodes));   *)
(* with k < 0 it is max(len(nodes) + k, 0), which min(k, len(nodes)) < 0   *)
(* can never be.                                                           *)
C4_HitCountIsMinForCounts ==
    HitsReturned =>
        /\ k >= 0 => Len(result.value) = Min(k, Len(nodes))
        /\ k < 0 => Len(result.value) = Max(Len(nodes) + k, 0)

(* Fewer hits than nodes were asked for, and as many came back *)
C4_Witness ==
    /\ HitsReturned
    /\ k >= 1 /\ k < Len(nodes)
    /\ Len(result.value) = k

----------------------------------------------------------------------------
Hits == result.value

(* s comes before t in the lexicographic order of code points *)
LexBefore(s, t) ==
    \E i \in 1..(Len(t)) :
        /\ \A j \in 1..(i - 1) : j <= Len(s) /\ s[j] = t[j]
        /\ \/ i = Len(s) + 1
           \/ i <= Len(s) /\ ord(s[i]) < ord(t[i])

(* Hit h ranks before the node n: a higher score, or the same score and    *)
(* the id that comes first                                                 *)
RanksBefore(h, n) ==
    \/ RatLess(Score(n), h.score)
    \/ RatEq(Score(n), h.score) /\ LexBefore(h.node.id, n.id)

(* All orders the sequence s can be given in *)
Reorderings(s) ==
    {[i \in 1..Len(s) |-> s[p[i]]] :
        p \in {q \in [1..Len(s) -> 1..Len(s)] :
                  \A i, j \in 1..Len(s) : q[i] = q[j] => i = j}}

(* C5: the hits are nodes of the input with their scores, in descending    *)
(* order of score and, at equal scores, in ascending lexicographic order   *)
(* of id; every hit ranks before every node left out, so the hits are the  *)
(* first entries of the full ranking (the first k of them for k >= 0); and *)
(* with unique ids the same nodes in any other order give the same hits.   *)
C5_HitsAreTopOfRanking ==
    (HitsReturned /\ UniqueIds) =>
        /\ \A i \in 1..Len(Hits) :
              /\ Hits[i].node \in Range(nodes)
              /\ Hits[i].score = Score(Hits[i].node)
        /\ \A i, j \in 1..Len(Hits) : i < j => RanksBefore(Hits[i], Hits[j].node)
        /\ \A i \in 1..Len(Hits) : \A n \in Range(nodes) :
              (\A j \in 1..Len(Hits) : Hits[j].node # n) => RanksBefore(Hits[i], n)
        /\ k >= 0 => Len(Hits) = Min(k, Len(nodes))
        /\ \A other \in Reorderings(nodes) :
              retrieve_top_k(query, other, k) = result

(* Two hits of equal score came back in id order, against their order in   *)
(* the input, and a node was left out                                       *)
C5_Witness ==
    /\ HitsReturned /\ UniqueIds
    /\ Len(nodes) = 3
    /\ k = 2
    /\ Len(Hits) = 2
    /\ RatLess(Zero, Hits[1].score)
    /\ RatEq(Hits[1].score, Hits[2].score)
    /\ Pos(Hits[1].node.id) > Pos(Hits[2].node.id)

----------------------------------------------------------------------------
(* The pairs of positions i < j whose similarity reaches the threshold *)
PairsAbove(t) ==
    {p \in (1..Len(nodes)) \X (1..Len(nodes)) :
        p[1] < p[2] /\ RatLeq(t, Sim(p[1], p[2]))}

EdgeOfPair(p) ==
    MemoryEdge(nodes[p[1]].id, nodes[p[2]].id, round4(Sim(p[1], p[2])))

(* C6: the edges returned are exactly one edge (nodes[i].id, nodes[j].id)  *)
(* per pair of positions i < j whose unrounded similarity is >= threshold, *)
(* and the edge stores that similarity rounded to 4 decimals; fewer than   *)
(* two nodes give no edge.                                                 *)
C6_EdgeIffRawSimilarityAboveThreshold ==
    (GraphBuilt /\ UniqueIds) =>
        /\ Range(result.value) = {EdgeOfPair(p) : p \in PairsAbove(threshold)}
        /\ Len(result.value) = Cardinality(PairsAbove(threshold))
        /\ Len(nodes) < 2 => result.value = <<>>

(* An edge was returned whose similarity reaches the threshold and whose   *)
(* stored, rounded similarity does not                                     *)
C6_Witness ==
    /\ GraphBuilt /\ UniqueIds
    /\ \E i \in 1..Len(result.value) :
          RatLess(FromStored(result.value[i].similarity), threshold)

(* C7: at any threshold not lower than the one of the call, the same nodes *)
(* give a subset of the (source_id, target_id) pairs, so no more edges.    *)
C7_ThresholdMonotone ==
    (GraphBuilt /\ UniqueIds) =>
        \A t2 \in Thresholds :
            RatLeq(threshold, t2) =>
                LET higher == build_semantic_graph(nodes, t2)
                IN /\ ~Raised(higher)
                   /\ {PairOf(e) : e \in Range(higher.value)}
                          \subseteq {PairOf(e) : e \in Range(result.value)}
                   /\ Len(higher.value) <= Len(result.value)

(* A higher threshold keeps some of the edges returned and drops others *)
C7_Witness ==
    /\ GraphBuilt /\ UniqueIds
    /\ \E t2 \in Thresholds :
          /\ RatLess(threshold, t2)
          /\ Len(build_semantic_graph(nodes, t2).value) > 0
          /\ Len(build_semantic_graph(nodes, t2).value) < Len(result.value)

(* The pair of positions an edge was made from *)
PairIndex(e) == <<Pos(e.source_id), Pos(e.target_id)>>

EnumeratedBefore(p, q) == p[1] < q[1] \/ (p[1] = q[1] /\ p[2] < q[2])

(* C8: the edges are in descending order of stored similarity, and edges   *)
(* of equal stored similarity are in the order their pairs (i, j) were     *)
(* enumerated, by i and then by j.                                         *)
C8_EdgesSortedStable ==
    (GraphBuilt /\ UniqueIds) =>
        \A a, b \in 1..Len(result.value) :
            a < b =>
                LET ea == result.value[a]
                    eb == result.value[b]
                IN /\ ea.similarity >= eb.similarity
                   /\ ea.similarity = eb.similarity =>
                          EnumeratedBefore(PairIndex(ea), PairIndex(eb))

(* The sort moved an edge ahead of one enumerated earlier and kept two     *)
(* edges of equal similarity behind it                                     *)
C8_Witness ==
    /\ GraphBuilt /\ UniqueIds
    /\ Len(result.value) = 3
    /\ EnumeratedBefore(PairIndex(result.value[2]), PairIndex(result.value[1]))
    /\ result.value[2].similarity = result.value[3].similarity

----------------------------------------------------------------------------
(* Two of the embeddings build_semantic_graph compares differ in length *)
GraphDimensionsDiffer ==
    \E i, j \in 1..Len(nodes) :
        i < j /\ Len(nodes[i].embedding) # Len(nodes[j].embedding)

(* An embedding retrieve_top_k compares with the query differs in length *)
QueryDimensionDiffers ==
    \E i \in 1..Len(nodes) : Len(nodes[i].embedding) # Len(query)

(* C9: build_semantic_graph and retrieve_top_k raise the dimension         *)
(* mismatch (ValueError) to their caller exactly when two vectors they     *)
(* compare differ in length, and then return nothing, no edges or hits     *)
(* gathered before; so nothing returned was scored on vectors of different *)
(* lengths.                                                                *)
C9_DimensionMismatchRaised ==
    /\ pc = "build_semantic_graph" =>
          /\ Raised(result) <=> GraphDimensionsDiffer
          /\ Raised(result) => result = Raise("ValueError")
    /\ pc = "retrieve_top_k" =>
          /\ Raised(result) <=> QueryDimensionDiffers
          /\ Raised(result) => result = Raise("ValueError")

(* build_semantic_graph raised at a later pair, after a pair that made an  *)
(* edge                                                                    *)
C9_Witness ==
    /\ pc = "build_semantic_graph"
    /\ Raised(result)
    /\ Len(nodes) = 3
    /\ Len(nodes[1].embedding) = Len(nodes[2].embedding)
    /\ RatLeq(threshold, Sim(1, 2))

(* C10: an edge that names an id no node carries raises nothing and is     *)
(* skipped: the clusters are those of the same nodes and the edge list     *)
(* without such edges, labels and order included, and no id but a node id  *)
(* is in them.                                                             *)
C10_UnknownEndpointsSkipped ==
    pc = "find_memory_clusters" =>
        /\ ~Raised(result)
        /\ result = find_memory_clusters(nodes, KnownEdges)
        /\ \A c \in 1..Len(Clusters) : Range(Members(c)) \subseteq NodeIds

(* An edge to an unknown id came first and an edge between two nodes after *)
(* it, which put them into one cluster                                     *)
C10_Witness ==
    /\ pc = "find_memory_clusters"
    /\ Len(edges) = 2
    /\ edges[1].target_id = UnknownId
    /\ edges[2].source_id \in NodeIds /\ edges[2].target_id \in NodeIds
    /\ edges[2].source_id # edges[2].target_id
    /\ SameCluster(edges[2].source_id, edges[2].target_id)

(* The union-find root of a node id after every edge was united *)
RootOf(id) ==
    _find(UnionEdges(_make_union_find([i \in 1..Len(nodes) |-> nodes[i].id]),
                     edges), id).root

EraOf(id) == nodes[Pos(id)].era

(* How many clusters before cluster c were labelled with the era of c's root *)
EarlierOfEra(c) ==
    Cardinality({b \in 1..(c - 1) :
                    EraOf(RootOf(Members(b)[1])) = EraOf(RootOf(Members(c)[1]))})

C12_LabelEraIsFirstMemberEra ==
    (ClustersFound /\ UniqueIds) =>
        \A c \in 1..Len(Clusters) :
            \E ordinal \in 0..Len(nodes) :
                Clusters[c].key =
                    "cluster_" \o EraOf(Members(c)[1]) \o "_" \o ToString(ordinal)

(* A vector of zero magnitude: every component is 0 *)
ZeroMagnitude(v) == \A i \in 1..Len(v) : v[i] = 0

(* C14: for two vectors of equal length of which at least one has zero     *)
(* magnitude cosine_similarity returns exactly 0.0 and raises nothing; so  *)
(* in a graph built with a threshold above 0 no edge touches a node whose  *)
(* embedding is a zero vector.                                             *)
C14_ZeroVectorScoresZero ==
    /\ (/\ pc = "cosine_similarity"
        /\ Len(args[1]) = Len(args[2])
        /\ ZeroMagnitude(args[1]) \/ ZeroMagnitude(args[2]))
           => result = Return(Zero)
    /\ (GraphBuilt /\ UniqueIds /\ RatLess(Zero, threshold)) =>
           \A i \in 1..Len(result.value) :
               /\ ~ZeroMagnitude(nodes[Pos(result.value[i].source_id)].embedding)
               /\ ~ZeroMagnitude(nodes[Pos(result.value[i].target_id)].embedding)

(* A vector that is not zero met a zero vector of its length *)
C14_Witness ==
    /\ pc = "cosine_similarity"
    /\ Len(args[1]) = Len(args[2])
    /\ ~ZeroMagnitude(args[1])
    /\ ZeroMagnitude(args[2])
    /\ result = Return(Zero)

(* The date string get_era_from_date was called with *)
DateStr == args[1]

(* A run of exactly 4 digits starts at place i: no digit before or after   *)
ExactRunAt(s, i) ==
    /\ i + 3 <= Len(s)
    /\ \A j \in i..(i + 3) : IsDigit(s[j])
    /\ i = 1 \/ ~IsDigit(s[i - 1])
    /\ i + 4 > Len(s) \/ ~IsDigit(s[i + 4])

(* Neither a letter nor an underscore adjoins the 4 characters from i on *)
FreeStandingAt(s, i) ==
    /\ i = 1 \/ s[i - 1] \notin Letters \cup {"_"}
    /\ i + 4 > Len(s) \/ s[i + 4] \notin Letters \cup {"_"}

YearAt(s, i) ==
    1000 * DigitValue(s[i]) + 100 * DigitValue(s[i + 1])
        + 10 * DigitValue(s[i + 2]) + DigitValue(s[i + 3])

Least(S) == CHOOSE x \in S : \A y \in S : x <= y

(* The table label of the year's decade for 1940..2020, "{decade}s" else *)
DecadeLabel(year) ==
    LET decade == (year \div 10) * 10
    IN IF \E n \in 0..8 : decade = 1940 + 10 * n
       THEN DictGet(ERA_DECADE_MAP, ToString(decade), "")
       ELSE ToString(decade) \o "s"

(* C15: get_era_from_date returns "unknown" for the empty string and for a *)
(* string with no run of exactly 4 digits; otherwise it takes the first    *)
(* run of exactly 4 digits anywhere in the string, also one that adjoins   *)
(* letters or underscores, and returns the label of its decade.            *)
C15_EraOfFirstExactRun ==
    pc = "get_era_from_date" =>
        LET runs == {i \in 1..Len(DateStr) : ExactRunAt(DateStr, i)}
        IN result = Return(IF runs = {} THEN _UNKNOWN_ERA
                           ELSE DecadeLabel(YearAt(DateStr, Least(runs))))

(* C15, amended: get_era_from_date returns "unknown" for the empty string  *)
(* and for a string with no run of exactly 4 digits that stands free, that *)
(* is with neither a letter nor an underscore directly before or after it; *)
(* otherwise it takes the first such run and returns the label of its      *)
(* decade, from the table for 1940..2020 and "{decade}s" for the others.   *)
C15_EraOfFirstFreeStandingRun ==
    pc = "get_era_from_date" =>
        LET runs == {i \in 1..Len(DateStr) :
                        ExactRunAt(DateStr, i) /\ FreeStandingAt(DateStr, i)}
        IN result = Return(IF runs = {} THEN _UNKNOWN_ERA
                           ELSE DecadeLabel(YearAt(DateStr, Least(runs))))

(* A run of 4 digits that adjoins a letter was passed over and a later one *)
(* that stands free gave the era, a decade outside the table               *)
C15_Witness ==
    /\ pc = "get_era_from_date"
    /\ \E i, j \in 1..Len(DateStr) :
          /\ i < j
          /\ ExactRunAt(DateStr, i) /\ ~FreeStandingAt(DateStr, i)
          /\ ExactRunAt(DateStr, j) /\ FreeStandingAt(DateStr, j)
          /\ YearAt(DateStr, i) = 1985
    /\ result = Return("2030s")

(* The hit list format_retrieval_results was called with *)
HitList == args[1]

Greatest(S) == CHOOSE x \in S : \A y \in S : x >= y

(* The text between its first and its last character that is no whitespace *)
Stripped(text) ==
    LET inked == {i \in 1..Len(text) : text[i] \notin Whitespace}
    IN IF inked = {} THEN <<>> ELSE SubSeq(text, Least(inked), Greatest(inked))

(* What the caption of hit i has to be rendered as *)
RenderedCaption(i) ==
    LET caption == Stripped(HitList[i].node.text)
    IN IF Len(caption) > 200
       THEN [j \in 1..200 |-> IF j <= 197 THEN caption[j] ELSE "."]
       ELSE caption

(* The entry of hit i: number, score to 4 decimals, caption in quotes *)
RenderedHit(i) ==
    str(i) \o <<".", " ", "[", "s", "c", "o", "r", "e", "=">>
           \o FormatScore(HitList[i].score)
           \o <<"]", " ", "\"">> \o RenderedCaption(i) \o <<"\"">>

RECURSIVE RenderedFrom(_)
RenderedFrom(i) ==
    IF i > Len(HitList) THEN <<>>
    ELSE <<"\n">> \o RenderedHit(i) \o RenderedFrom(i + 1)

C17_EmbeddingNeverRaises ==
    /\ pc = "generate_embedding" =>
          /\ ~Raised(result)
          /\ result.value.embedding \in Seq(Int)
    /\ pc = "amd_service.generate_embedding" =>
          /\ ~Raised(result)
          /\ result.value \in Seq(Int)

(* The embedding documents written so far, in the order they were written *)
EmbeddingWrites == SelectSeq(firestore, LAMBDA doc : doc.path[3] = "embeddings")

(* C18: batch_generate_embeddings works through the captions strictly one  *)
(* after the other: at most one embedding request is in flight; while the  *)
(* request for caption i is in flight the embeddings of all captions       *)
(* before i, and no other, are stored; they are stored under their own     *)
(* index, in increasing order; and the results are one per processed       *)
(* caption, in input order, all of them once the batch has returned.       *)
C18_BatchStrictlySequential ==
    pc # "start" =>
        /\ Cardinality(in_flight) <= 1
        /\ \A i \in in_flight : i = locals.idx /\ Len(EmbeddingWrites) = i
        /\ \A w \in 1..Len(EmbeddingWrites) :
              /\ EmbeddingWrites[w].caption_index = w - 1
              /\ EmbeddingWrites[w].path = <<"memories", args.memory_id, "embeddings", w - 1>>
              /\ EmbeddingWrites[w].caption = args.fetched[w]
              /\ EmbeddingWrites[w].embedding = locals.results[w].embedding
        /\ Len(locals.results) = Len(EmbeddingWrites)
        /\ \A i \in 1..Len(locals.results) : locals.results[i].text = args.fetched[i]
        /\ nodes # <<>> => Len(locals.results) = Min(Len(args.fetched), 30)

(* The request for the last of 30 processed captions is in flight, that of *)
(* a memory with more captions, and 29 embeddings are stored               *)
C18_Witness ==
    /\ pc = "awaiting_embedding"
    /\ in_flight = {29}
    /\ Len(args.fetched) > 30
    /\ Len(EmbeddingWrites) = 29
    /\ \E w \in 1..29 : EmbeddingWrites[w].embedding # EmbeddingWrites[1].embedding

(* What C19 says of the nodes handed to build_semantic_graph: at most 30,  *)
(* node i with the id, the caption and the embedding of caption i          *)
NodesAreFirstThirty ==
    /\ Len(nodes) <= 30
    /\ Len(nodes) = Min(Len(args.fetched), 30)
    /\ \A i \in 1..Len(nodes) :
          /\ nodes[i].id = args.memory_id \o <<"_">> \o str(i - 1)
          /\ nodes[i].text = args.fetched[i]
          /\ nodes[i].embedding = locals.results[i].embedding

(* C19: however many captions are fetched, process_memory_embeddings hands *)
(* at most 30 nodes to build_semantic_graph, node i carrying caption i and *)
(* embedding i, and build_semantic_graph makes exactly n(n-1)/2 similarity *)
(* comparisons for n nodes, so at most 435.                                *)
C19_AllPairsCompared ==
    nodes # <<>> =>
        /\ NodesAreFirstThirty
        /\ 2 * locals.comparisons = Len(nodes) * (Len(nodes) - 1)
        /\ locals.comparisons <= 435

(* C19, amended: at most 30 nodes are handed over, node i carrying caption *)
(* i and embedding i; a call of build_semantic_graph that returns has made *)
(* exactly n(n-1)/2 comparisons, one that raises on a dimension mismatch   *)
(* has stopped at the comparison that raised, after at most n(n-1)/2; so   *)
(* at most 435 either way.                                                 *)
C19_AllPairsComparedUnlessRaised ==
    nodes # <<>> =>
        /\ NodesAreFirstThirty
        /\ pc # "raised" => 2 * locals.comparisons = Len(nodes) * (Len(nodes) - 1)
        /\ pc = "raised" => /\ result = Raise("ValueError")
                            /\ locals.comparisons >= 1
                            /\ 2 * locals.comparisons <= Len(nodes) * (Len(nodes) - 1)
        /\ locals.comparisons <= 435

(* 32 captions were fetched, 30 nodes were compared in 435 pairs and the   *)
(* graph was stored                                                        *)
C19_Witness ==
    /\ pc = "returned"
    /\ Len(args.fetched) = 32
    /\ Len(nodes) = 30
    /\ locals.comparisons = 435
    /\ Len(edges) > 0

(* The request that handle_upload was called with, and its response *)
UploadRequest == args[1]

UploadResponse == result.value

UploadHandled == pc = "handle_upload"

(* A bad image: extension, declared MIME type, empty, oversized *)
BadImage(photo) ==
    \/ FileExt(photo.filename) \notin _ALLOWED_IMAGE_EXTS
    \/ /\ MimeType(photo.content_type) # <<>>
       /\ MimeType(photo.content_type) \notin _ALLOWED_IMAGE_MIMES
    \/ photo.size = 0
    \/ photo.size > _MAX_FILE_SIZE_BYTES

BadAudio(voice) ==
    \/ FileExt(voice.filename) \notin _ALLOWED_AUDIO_EXTS
    \/ /\ MimeType(voice.content_type) # <<>>
       /\ MimeType(voice.content_type) \notin _ALLOWED_AUDIO_MIMES
    \/ voice.size = 0
    \/ voice.size > _MAX_FILE_SIZE_BYTES

(* One of the causes C20 lists holds of the request *)
ValidationFails ==
    \/ strip(UploadRequest.person_name) = <<>>
    \/ Len(strip(UploadRequest.person_name)) > _MAX_PERSON_NAME_LEN
    \/ UploadRequest.photos = <<>>
    \/ ~FileGiven(UploadRequest.voice_recording)
    \/ Len(UploadRequest.photos) > _MAX_PHOTOS
    \/ Len(UploadRequest.captions) # Len(UploadRequest.photos)
    \/ \E i \in 1..Len(UploadRequest.photos) : BadImage(UploadRequest.photos[i])
    \/ BadAudio(UploadRequest.voice_recording)

(* C20: a call of handle_upload whose request fails validation (person_name *)
(* missing or longer than 100 characters, no photos, no voice recording,   *)
(* more than MAX_PHOTOS photos, a caption count other than the photo       *)
(* count, an image or the audio with an extension or a declared MIME type  *)
(* that is not allowed, an empty or oversized file) answers 400 with       *)
(* error "validation_failed" and a detail, and leaves the storage bucket,  *)
(* Firestore and the background threads as they were before the call.      *)
C20_FailedValidationHasNoSideEffect ==
    [][(UploadHandled' /\ ValidationFails') =>
          /\ UploadResponse'.status = 400
          /\ UploadResponse'.body.error = "validation_failed"
          /\ UploadResponse'.body.detail # <<>>
          /\ storage' = storage
          /\ firestore' = firestore
          /\ background' = background]_vars

(* A server that holds an earlier upload has refused a request whose       *)
(* second photo is empty                                                   *)
C20_Witness ==
    /\ UploadHandled
    /\ Len(UploadRequest.photos) = 2
    /\ ~BadImage(UploadRequest.photos[1])
    /\ UploadRequest.photos[2].size = 0
    /\ UploadResponse.status = 400
    /\ storage # <<>>
    /\ firestore # <<>>
    /\ background # <<>>

(* The connected components of the node ids under the edges argument *)
Components == {ReachableFrom({id}) : id \in NodeIds}

(* C29: whatever the eras are, also eras with underscores and digits, the  *)
(* groups of find_memory_clusters get pairwise distinct labels: no group   *)
(* replaces another in the mapping returned, which has one entry per       *)
(* connected component of the node ids, holding the ids of that component. *)
C29_OneLabelPerComponent ==
    ClustersFound =>
        /\ Len(Clusters) = Cardinality(Components)
        /\ \A c, d \in 1..Len(Clusters) : Clusters[c].key = Clusters[d].key => c = d
        /\ \A c \in 1..Len(Clusters) : Range(Members(c)) \in Components

(* Three clusters of one node each, two of the era x and one of the era    *)
(* x_0: the labels cluster_x_0, cluster_x_1 and cluster_x_0_0              *)
C29_Witness ==
    /\ ClustersFound
    /\ Len(Clusters) = 3
    /\ {nodes[i].era : i \in 1..Len(nodes)} = {"x", "x_0"}
    /\ {Clusters[c].key : c \in 1..Len(Clusters)}
          = {"cluster_x_0", "cluster_x_1", "cluster_x_0_0"}

(* The parent dict of the union-find calls *)
Parent == locals.parent

ParentMade == pc \in {"_make_union_find", "_find", "_union"}

(* The id reached from nid by following at most steps parent links *)
RECURSIVE Follow(_, _, _)
Follow(parent, nid, steps) ==
    IF steps = 0 \/ parent[nid] = nid THEN nid
    ELSE Follow(parent, parent[nid], steps - 1)

(* The root of nid, where the links from nid end in a root *)
SetRoot(parent, nid) == Follow(parent, nid, Cardinality(DOMAIN parent))

(* The sets of the structure: the ids grouped by their root *)
SetOf(parent, nid) == {m \in DOMAIN parent : SetRoot(parent, m) = SetRoot(parent, nid)}

Sets(parent) == {SetOf(parent, nid) : nid \in DOMAIN parent}

(* The keys are the initial ids, every link stays among them, and the      *)
(* links from every id end in a self-parented root                         *)
IsForest(parent) ==
    /\ DOMAIN parent = NodeIds
    /\ \A nid \in DOMAIN parent :
          /\ parent[nid] \in DOMAIN parent
          /\ parent[SetRoot(parent, nid)] = SetRoot(parent, nid)

(* A call of _find returned: it returned the root its argument had, and    *)
(* no id changed its root                                                  *)
FindKeepsRoots ==
    (pc' = "_find" /\ ~Raised(result')) =>
        /\ result'.value = SetRoot(Parent, args'[1])
        /\ \A nid \in NodeIds : SetRoot(Parent', nid) = SetRoot(Parent, nid)

(* A call of _union returned: the sets of a and b are one set, the others  *)
(* are as they were                                                        *)
UnionMergesTwoSets ==
    (pc' = "_union" /\ ~Raised(result')) =>
        Sets(Parent') =
            (Sets(Parent) \ {SetOf(Parent, args'[1]), SetOf(Parent, args'[2])})
            \cup {SetOf(Parent, args'[1]) \cup SetOf(Parent, args'[2])}

(* A call that raised KeyError on an id that is no key left every set as   *)
(* it was                                                                  *)
RaisedKeepsSets ==
    (pc' \in {"_find", "_union"} /\ Raised(result')) => Sets(Parent') = Sets(Parent)

(* C30: after _make_union_find and any sequence of _find and _union calls  *)
(* the parent map is a forest over exactly the initial node ids, the links *)
(* from every id ending in a self-parented root after finitely many steps; *)
(* _find returns the root of its argument and changes the root of no id;   *)
(* _union(a, b) merges the set of a with the set of b and changes no other *)
(* set.                                                                    *)
C30_ParentStaysForest ==
    /\ [](ParentMade => IsForest(Parent))
    /\ [][ParentMade => (FindKeepsRoots /\ UnionMergesTwoSets /\ RaisedKeepsSets)]_vars

(* _find has returned the root of an id that is not the root, in a set of  *)
(* three ids which all hang directly under that root                       *)
C30_Witness ==
    /\ pc = "_find"
    /\ ~Raised(result)
    /\ Cardinality(NodeIds) = 3
    /\ Sets(Parent) = {NodeIds}
    /\ Parent[args[1]] = result.value
    /\ args[1] # result.value
    /\ \A nid \in NodeIds : Parent[nid] = result.value

(* _post_with_retry has entered its loop: the headers were made *)
PostLoopEntered == pc \in {"post", "awaiting_response", "sleeping", "returned"}
                   \/ (pc = "raised" /\ result.exc # "KeyError")

PostEnded == pc \in {"returned", "raised"}

(* The waits before the 2nd, 3rd and 4th request, in seconds *)
BackoffWaits == <<2, 4, 8>>

(* At most 4 requests; a request is repeated only after a 429, and after   *)
(* the waits 2 s, 4 s, 8 s; a response other than 429 is the last one and  *)
(* ends the call, returned if it is a 2xx and raised as HTTPStatusError    *)
(* otherwise; a 429 to the 4th request is raised as HTTPStatusError        *)
PostRetriesOnlyOn429 ==
    PostLoopEntered =>
        /\ Len(elevenlabs) <= _MAX_RETRIES + 1
        /\ Len(elevenlabs) <= 4
        /\ locals.slept = SubSeq(BackoffWaits, 1, Len(locals.slept))
        /\ Len(elevenlabs) = Len(locals.slept) + (IF pc = "post" THEN 0 ELSE 1)
        /\ \A i \in 1..Len(locals.slept) : locals.responses[i] = 429
        /\ \A i \in 1..Len(locals.responses) :
              (locals.responses[i] # 429 \/ i = 4) =>
                  /\ i = Len(locals.responses)
                  /\ IF locals.responses[i] \in 200..299
                     THEN pc = "returned" /\ result = Return(locals.responses[i])
                     ELSE pc = "raised" /\ result = Raise("HTTPStatusError")
        /\ (PostEnded /\ result.exc \in {"none", "HTTPStatusError"}) =>
              /\ locals.responses # <<>>
              /\ Len(locals.responses) = Len(elevenlabs)

(* C23: _post_with_retry always terminates, after at most                  *)
(* _MAX_RETRIES + 1 = 4 requests: it repeats a request only after a 429,   *)
(* having waited 2 s, 4 s and 8 s before the 2nd, 3rd and 4th request; the *)
(* first response other than 429 ends the loop at once, returned if        *)
(* successful and raised as HTTPStatusError otherwise; a 429 to the 4th    *)
(* request is raised as HTTPStatusError and not retried.                   *)
C23_PostTerminatesWithinFourRequests ==
    /\ []PostRetriesOnlyOn429
    /\ <>PostEnded

(* Four requests were answered 429: three waits, then HTTPStatusError *)
C23_Witness ==
    /\ pc = "raised"
    /\ result = Raise("HTTPStatusError")
    /\ locals.responses = <<429, 429, 429, 429>>
    /\ locals.slept = <<2, 4, 8>>
    /\ Len(elevenlabs) = 4

(* The threads whose call ran the model constructor *)
Constructors == {t \in Threads : locals[t] # None}

(* The threads whose call has returned *)
Callers == {t \in Threads : pc[t] = "returned"}

(* C28: however the first calls of _get_local_model by several threads     *)
(* interleave, the model constructor runs at most once in the process,     *)
(* exactly once when a call has returned, and every caller receives that   *)
(* one instance.                                                           *)
C28_LocalModelConstructedOnce ==
    /\ Cardinality(Constructors) <= 1
    /\ Callers # {} => Cardinality(Constructors) = 1
    /\ \A t, u \in Callers : result[t].value = result[u].value

----------------------------------------------------------------------------
(* The memory of SpecBackend, SpecRetryAgent and SpecProvisioning *)

Memory == to_dict(firestore, <<"memories", KnownMemory>>)

Status == Memory.status

(* The step is taken by thread t *)
StepOf(t) == pc'[t] # pc[t] \/ locals'[t] # locals[t]

(* Firestore differs at most in the embedding of the photo document of id  *)
(* photo_id, which is set                                                  *)
OnlyEmbeddingOf(photo_id) ==
    /\ Len(firestore') = Len(firestore)
    /\ \A i \in 1..Len(firestore) :
          \/ firestore'[i] = firestore[i]
          \/ /\ firestore[i].path = <<"memories", KnownMemory, "photos", photo_id>>
             /\ firestore'[i].embedding # None
             /\ firestore'[i] = [firestore[i] EXCEPT !.embedding = firestore'[i].embedding]

(* The entries of a job's log that are about a photo *)
Visited(l) == SelectSeq(l.log, LAMBDA e : e.photo # 0)

(* The photos the job counted as failed *)
FailedPhotos(l) == {j \in 1..Len(l.log) : l.log[j].event = "failed"}

(* C26: no step of the upload's embedding job (_run_embeddings) changes    *)
(* the memory document, so its status stays what it was; the only thing a  *)
(* step writes is the embedding of the photo it is at, and the job ends    *)
(* without a write whatever the number of photos that failed.              *)
C26_RunEmbeddingsLeavesStatus ==
    [][StepOf("embed") =>
          /\ Memory' = Memory
          /\ OnlyEmbeddingOf(locals["embed"].photos[
                                 Min(locals["embed"].i,
                                     Len(locals["embed"].photos))].photo_id)
          /\ pc["embed"] # "update_photo_embedding" => firestore' = firestore]_vars

(* The job has ended with both photos failed, next to a provisioning       *)
(* thread that has set the status                                          *)
C26_Witness ==
    /\ pc["embed"] = "done"
    /\ locals["embed"].failed = 2
    /\ Status = "ready"

(* What the log of the batch job must be at each moment: the photos in     *)
(* order, each once, skipped exactly when the list the job was given holds *)
(* an embedding for it, failed as often as counted; and once the job has   *)
(* ended, every photo and then one status                                  *)
RunBatchLog ==
    pc["embed-batch"] # "not_started" =>
        LET l == locals["embed-batch"]
            visited == Visited(l)
        IN  /\ \A j \in 1..Len(visited) :
                  /\ visited[j].photo = j
                  /\ visited[j].event \in {"skipped", "failed", "embedding"}
                  /\ visited[j].event = "skipped" <=> l.photos[j].embedding # None
            /\ l.failed = Cardinality(FailedPhotos(l))
            /\ IF pc["embed-batch"] = "done"
               THEN /\ Len(visited) = Len(l.photos)
                    /\ l.log = visited \o
                          <<[photo |-> 0,
                             event |-> IF FailedPhotos(l) = {} THEN "ready"
                                       ELSE "error"]>>
               ELSE l.log = visited

(* What a step of the batch job writes: the embedding of the photo it has  *)
(* downloaded and embedded, the status when it ends, else nothing          *)
RunBatchWrites ==
    StepOf("embed-batch") =>
        LET l == locals["embed-batch"]
            after == locals'["embed-batch"]
        IN  IF pc'["embed-batch"] = "done"
            THEN firestore' = update_memory_status(
                                  firestore, KnownMemory,
                                  IF FailedPhotos(after) = {} THEN "ready"
                                  ELSE "error")
            ELSE IF Len(after.log) > Len(l.log)
                    /\ after.log[Len(after.log)].event = "embedding"
            THEN /\ Memory' = Memory
                 /\ OnlyEmbeddingOf(l.photos[l.i].photo_id)
                 /\ to_dict(firestore', <<"memories", KnownMemory, "photos",
                                          l.photos[l.i].photo_id>>).embedding
                        = Vector(l.embedding)
            ELSE firestore' = firestore

(* C24: the batch job of /api/embed (_run_batch) visits the photos it was  *)
(* given in order, skips those that carry an embedding, writes one         *)
(* embedding for each other photo whose download and embedding succeed,    *)
(* goes on after a photo failed, and ends by one write of the status:      *)
(* "ready" if no photo failed, else "error".                               *)
C24_RunBatchVisitsAllSetsStatusOnce ==
    /\ []RunBatchLog
    /\ [][RunBatchWrites]_vars

(* The job has ended after its first photo failed and its second was       *)
(* embedded                                                                *)
C24_Witness ==
    /\ pc["embed-batch"] = "done"
    /\ locals["embed-batch"].log =
          <<[photo |-> 1, event |-> "failed"], [photo |-> 2, event |-> "embedding"],
            [photo |-> 0, event |-> "error"]>>
    /\ Status = "error"

(* Every thread that was started has ended *)
ThreadsEnded == \A t \in DOMAIN pc : pc[t] \in {"done", "not_started"}

(* The provisioning thread has created voice clone, knowledge base and     *)
(* agent and has ended                                                     *)
Provisioned ==
    /\ pc["el-provision"] = "done"
    /\ locals["el-provision"].agent_id # None

(* C27: once the threads have ended, a memory whose provisioning succeeded *)
(* has status "ready", whatever the embedding jobs did.                    *)
C27_ProvisionedEndsReady == ThreadsEnded /\ Provisioned => Status = "ready"

(* An embedding job of the memory has ended with no photo failed *)
EmbeddingJobSucceeded ==
    \E t \in {"embed", "embed-batch"} :
        pc[t] = "done" /\ locals[t].failed = 0

(* C21: after the upload the status is "processing", and if an embedding   *)
(* job of the memory ends with every embedding succeeded, then the status  *)
(* is "ready" at that moment or later.                                     *)
C21_StatusBecomesReady ==
    /\ Status = "processing"
    /\ <>EmbeddingJobSucceeded => <>(EmbeddingJobSucceeded /\ Status = "ready")

(* The memory of a request to retry-agent, as Firestore holds it *)
Eligible(memory_id) ==
    /\ exists(firestore, <<"memories", memory_id>>)
    /\ LET data == to_dict(firestore, <<"memories", memory_id>>)
       IN  data.voice_id # None /\ data.kb_id # None /\ data.agent_id = None

(* C22: a request to retry-agent starts agent creation for an existing     *)
(* memory that has voice_id and kb_id and no agent_id, and for no other;   *)
(* an unknown memory is answered with 404, a memory without voice_id or    *)
(* kb_id with 400, and a rejected request starts no thread, creates no     *)
(* agent and writes nothing.                                               *)
C22_RetryAgentStartsForEligible ==
    [][(DOMAIN args' = {"memory_id"} /\ UNCHANGED <<pc, locals>>) =>
          LET memory_id == args'.memory_id
              response == result'.value
              started == background' # background
              path == <<"memories", memory_id>>
          IN  /\ started <=> Eligible(memory_id)
              /\ started => response.status = 200
              /\ ~exists(firestore, path) => response.status = 404
              /\ (/\ exists(firestore, path)
                  /\ \/ to_dict(firestore, path).voice_id = None
                     \/ to_dict(firestore, path).kb_id = None)
                    => response.status = 400
              /\ ~started => /\ firestore' = firestore
                             /\ elevenlabs' = elevenlabs]_vars

(* The resources of one kind that ElevenLabs holds for the memory *)
Created(resource) ==
    {i \in 1..Len(elevenlabs) : elevenlabs[i].resource = resource}

(* C25: however often the provisioning pipeline runs for a memory, there   *)
(* is at most one voice clone, one knowledge base and one agent for it,    *)
(* and a run that found agent_id set has called and written nothing.       *)
C25_ProvisionedOnce ==
    /\ \A resource \in {"voice", "kb", "agent"} :
          Cardinality(Created(resource)) <= 1
    /\ \A t \in DOMAIN pc :
          "skipped" \in Range(locals[t].log) => locals[t].log = <<"skipped">>

====
